---- MODULE Spec2Model ----
(***************************************************************************)
(* Model of the data-analytics agent: the conversation orchestrator        *)
(* (agent/analytics_agent.py, AnalyticsAgent.chat and load_dataset), the   *)
(* execution engine (agent/tools.py, execute_python_code and its worker    *)
(* thread) and the session store (services/session_service.py).            *)
(*                                                                         *)
(* Python threads interleave between bytecodes, so every access to state   *)
(* shared between threads (the agent's fields, sys.stdout, the StringIO    *)
(* buffers, the stores) is a step of its own; work on locals is folded     *)
(* into the step of the shared access that precedes it.                    *)
(***************************************************************************)
EXTENDS Integers, Sequences, FiniteSets, TLC

\* ------------------------------------------------------------------ bounds
\* chat calls started in one behaviour
MaxChats == 2
\* tool calls the model issues in one turn
MaxToolCalls == 2
\* load_dataset calls in one behaviour
MaxLoads == 2
\* direct execute_python_code calls in one behaviour (engine harness)
MaxExecs == 2
\* direct calls of the session store's and the memory bank's operations
MaxOps == 4
\* the last value of the clock
MaxClock == 3

\* ------------------------------------------------------------- vocabulary
\* request threads that call AnalyticsAgent.chat / load_dataset
Callers == {"c1", "c2"}
\* threads that call execute_python_code directly
DirectCallers == {"d1", "d2"}
Threads == Callers \cup DirectCallers

None == "None"
\* chat(message, session_id = None)
SessionIds == {"s1"}
SidArgs == SessionIds \cup {None}
\* dataset files that exist on disk
Files == {"f1", "f2"}
MissingFile == "missing"

\* a model session handle that is None (self.chat_session = None)
NoChat == 0

\* sys.stdout before any redirection (the process's real stream)
RealStdout == 0
\* text written by the host process (chat's and the engine's own prints)
HostText == 0

\* max_retries of the user-turn retry loop
max_retries == 2

\* What a piece of generated code does when exec'd:
\*   prints  - number of print() calls it makes before its outcome
\*   outcome - "ok" (runs to the end), "syntax" (does not compile),
\*             "raise" (raises an Exception), "exit" (raises SystemExit, a
\*             BaseException), "hang" (never ends, `while True: pass`)
\*   result, plot - whether it binds `result` / `plot_config`
CodeOf(c) ==
    CASE c = "print_ok"   -> [prints |-> 1, outcome |-> "ok",     result |-> TRUE,  plot |-> TRUE]
      [] c = "ok_noplot"  -> [prints |-> 0, outcome |-> "ok",     result |-> TRUE,  plot |-> FALSE]
      [] c = "ok_nores"   -> [prints |-> 0, outcome |-> "ok",     result |-> FALSE, plot |-> TRUE]
      [] c = "syntax"     -> [prints |-> 0, outcome |-> "syntax", result |-> FALSE, plot |-> FALSE]
      [] c = "div0"       -> [prints |-> 0, outcome |-> "raise",  result |-> FALSE, plot |-> FALSE]
      [] c = "print_div0" -> [prints |-> 1, outcome |-> "raise",  result |-> FALSE, plot |-> FALSE]
      [] c = "exit"       -> [prints |-> 0, outcome |-> "exit",   result |-> FALSE, plot |-> FALSE]
      [] c = "loop"       -> [prints |-> 0, outcome |-> "hang",   result |-> FALSE, plot |-> FALSE]
      [] c = "import_os"  -> [prints |-> 0, outcome |-> "ok",     result |-> TRUE,  plot |-> FALSE]
      [] c = "open_file"  -> [prints |-> 0, outcome |-> "ok",     result |-> TRUE,  plot |-> FALSE]

\* the names a piece of generated code looks up in its symbol table:
\* "import_os" is `import os; result = os.getcwd()`, "open_file" is
\* `result = open(filename).read()`, "exit" is `__import__('sys').exit()`
Uses(c) ==
    CASE c = "import_os" -> {"__import__"}
      [] c = "open_file" -> {"open", "filename"}
      [] c = "exit"      -> {"__import__"}
      [] OTHER           -> {"pd", "filename", "print", "len"}

\* restricted_globals['__builtins__'], restricted_globals and local_vars
RestrictedBuiltins ==
    {"range", "len", "str", "int", "float", "list", "dict", "sum", "min", "max", "abs",
     "round", "sorted", "enumerate", "zip", "print", "isinstance", "type",
     "True", "False", "None", "__import__"}
RestrictedGlobals == {"pd", "json", "__builtins__"}
LocalVars == {"filename"}
SymbolTable == RestrictedBuiltins \cup RestrictedGlobals \cup LocalVars

\* how exec(code, restricted_globals, local_vars) ends: as the code would
\* with every name at hand, or with a NameError at a name the table lacks
Outcome(c) == IF Uses(c) \subseteq SymbolTable THEN CodeOf(c).outcome ELSE "raise"

\* code the engine harness submits
ExecCodes == {"print_ok", "print_div0", "syntax", "loop"}
\* every kind of generated code
AllCodes == {"print_ok", "ok_noplot", "ok_nores", "syntax", "div0", "print_div0",
             "exit", "loop", "import_os", "open_file"}
\* code the model submits in a tool call
ChatCodes == {"print_ok", "ok_noplot", "syntax", "div0", "loop"}
\* the (code, filename) arguments of the model's tool calls: the filename the
\* model was given, or one that names no file
ChatCalls == (ChatCodes \X {"given"}) \cup {<<"print_ok", MissingFile>>}

\* ----------------------------------------------------------------- state
VARIABLES
    \* --- AnalyticsAgent fields
    current_file_path,  \* self.current_file_path
    chat_session,       \* self.chat_session: None | model session id (default session)
    session_chats,      \* self._session_chats: dict sid -> None | model session id
    \* --- the model side: one entry per start_chat(): the session id it was
    \*     created for, the number of dataset bindings made before it, and the
    \*     system instructions (dataset pointers) sent to it
    model_sessions,
    \* --- InMemorySessionService._sessions: dict sid -> conversation_history,
    \*     and dict sid -> the session's created_at, last_activity and context
    sessions, session_info,
    \* --- MemoryBank._memories, in the order the memories were stored
    memories,
    \* --- process-wide stdout binding and the execution workers
    sys_stdout,
    workers,
    \* --- per thread: position and locals of chat / execute_python_code
    pc, frame,
    \* --- what the call that ended last returned (or that it raised)
    ret,
    \* --- counters that bound the behaviour
    nchats, nloads, nexecs,
    \* --- InMemorySessionService._lock: the thread that holds it, or None
    session_lock,
    \* --- how many values uuid.uuid4() has produced, and how many direct
    \*     store operations were started
    nuuid, nops,
    \* --- what datetime.now() returns
    now

vars == <<current_file_path, chat_session, session_chats, model_sessions, sessions,
          memories, sys_stdout, workers, pc, frame, ret, nchats, nloads, nexecs,
          session_lock, nuuid, nops, now, session_info>>

storeVars == <<session_lock, nuuid, nops, now>>
agentVars == <<current_file_path, chat_session, session_chats, model_sessions, sessions,
               session_info>>
engineVars == <<sys_stdout, workers>>

\* ------------------------------------------------------ execution engine
\* result_container as created at tools.py:251
InitialContainer ==
    [success |-> FALSE, error |-> "Execution timed out", result |-> FALSE,
     plot |-> <<>>, output |-> <<>>, has_output |-> FALSE]

\* the dict returned when the file does not exist (tools.py:213-216)
FileNotFoundResult ==
    [success |-> FALSE, error |-> "File not found", result |-> FALSE,
     plot |-> <<>>, output |-> <<>>, has_output |-> FALSE]

\* a timeout return that would hand out the worker's own result_container
TimeoutResult_Container == InitialContainer

\* the dict returned when the worker is still alive after join (tools.py:305-308)
TimeoutResult ==
    [success |-> FALSE, error |-> "Code execution timed out (30s limit)", result |-> FALSE,
     plot |-> <<>>, output |-> <<>>, has_output |-> FALSE]

\* file.write(text) on whatever stream `target` is: a StringIO of worker
\* `target` accumulates it, the real stream leaves the model
Write(target, text, ws) ==
    IF target = RealStdout THEN ws
    ELSE [ws EXCEPT ![target].buf = Append(@, text)]

\* (fate: whether the caller still waits in join, has joined the worker, or
\* has given it up at the deadline)
NewWorker(t, c) ==
    [owner |-> t, code |-> c, fate |-> "awaited", wpc |-> "save", old_stdout |-> RealStdout,
     buf |-> <<>>, left |-> CodeOf(c).prints, exc |-> "none",
     output |-> <<>>, rc |-> InitialContainer]

\* a file system in which every path exists
Exists_Always(f) == TRUE

\* os.path.exists(filename)
Exists(f) == f \in Files

\* the text a run of worker w's code prints, in full
Printed(w) == [i \in 1..CodeOf(workers[w].code).prints |-> w]

\* locals of a thread that is not inside a call
IdleFrame ==
    [sid |-> None, msg |-> 0, cs |-> NoChat, ctx |-> None, retry_count |-> 0,
     response |-> [kind |-> "none", code |-> "none", filename |-> "none"],
     tool_calls |-> <<>>, errors |-> <<>>, warnings |-> <<>>,
     final_plot_config |-> <<>>, executed_code |-> None, final_response |-> "",
     w |-> 0, filename |-> None, exec_result |-> InitialContainer,
     found |-> FALSE, memory_id |-> 0, content |-> None, category |-> None,
     extraction |-> [kind |-> "none", text |-> <<>>, failing |-> 0], cutoff_time |-> 0,
     sends |-> <<>>, events |-> <<>>, returned |-> <<>>]

\* what a finished call left behind: the value it returned (or the exception
\* it raised) and, for reference, which call it was (its thread, the place
\* it returned from, its message, its model session, its last worker, the
\* messages it sent to the model with what came back, the order of its
\* engine/model events, the results execute_python_code returned to it,
\* what its preference extraction met and the cutoff time of a cleanup)
Finished(t, at, fr, value) ==
    [value |-> value, thread |-> t, at |-> at, sid |-> fr.sid, msg |-> fr.msg,
     cs |-> fr.cs, w |-> fr.w, sends |-> fr.sends, events |-> fr.events,
     returned |-> fr.returned, extraction |-> fr.extraction, cutoff_time |-> fr.cutoff_time]

NoReturn == Finished("none", "none", IdleFrame, [kind |-> "none"])

\* control returns to the caller: the call leaves its return value behind
Return(t, value) ==
    /\ ret' = Finished(t, pc[t], frame[t], value)
    /\ frame' = [frame EXCEPT ![t] = IdleFrame]
    /\ pc' = [pc EXCEPT ![t] = "idle"]

Init ==
    /\ current_file_path = None
    /\ chat_session = NoChat
    /\ session_chats = <<>>
    /\ model_sessions = <<>>
    /\ sessions = <<>>
    /\ session_info = <<>>
    /\ memories = <<>>
    /\ sys_stdout = RealStdout
    /\ workers = <<>>
    /\ pc = [t \in Threads |-> "idle"]
    /\ frame = [t \in Threads |-> IdleFrame]
    /\ ret = NoReturn
    /\ nchats = 0
    /\ nloads = 0
    /\ nexecs = 0
    /\ session_lock = None
    /\ nuuid = 0
    /\ nops = 0
    /\ now = 1

WorkerIds == 1..Len(workers)

\* a caller that would not wait for the worker at all (join left out)
AfterThreadStart_NoJoin == "exec_done"

\* after thread.start() the caller waits for the worker: thread.join(timeout=30)
AfterThreadStart == "exec_join"

\* execute_python_code(code, description, filename) up to thread.start():
\* the file check, then the worker thread is created and started
\* (ws: the workers after whatever the caller printed just before the call)
ExecuteStart(t, c, f, fr, ws) ==
    IF ~Exists(f)
    THEN /\ workers' = ws
         /\ frame' = [frame EXCEPT ![t] = [fr EXCEPT !.exec_result = FileNotFoundResult,
                                                     !.w = 0,
                                                     !.filename = f,
                                                     !.returned = Append(@, FileNotFoundResult),
                                                     !.events = Append(@, "exec_call") \o <<"exec_return">>]]
         /\ pc' = [pc EXCEPT ![t] = "exec_done"]
    ELSE /\ workers' = Append(ws, NewWorker(t, c))
         /\ frame' = [frame EXCEPT ![t] = [fr EXCEPT !.w = Len(ws) + 1,
                                                     !.filename = f,
                                                     !.events = Append(@, "exec_call")]]
         /\ pc' = [pc EXCEPT ![t] = AfterThreadStart]

\* old_stdout = sys.stdout
WorkerSave(w) ==
    /\ workers[w].wpc = "save"
    /\ workers' = [workers EXCEPT ![w].old_stdout = sys_stdout, ![w].wpc = "redirect"]
    /\ UNCHANGED <<agentVars, sys_stdout, pc, frame, ret, nchats, nloads, nexecs, memories, storeVars>>

\* sys.stdout = StringIO()
WorkerRedirect(w) ==
    /\ workers[w].wpc = "redirect"
    /\ sys_stdout' = w
    /\ workers' = [workers EXCEPT ![w].wpc = "exec"]
    /\ UNCHANGED <<agentVars, pc, frame, ret, nchats, nloads, nexecs, memories, storeVars>>

\* one print() of the generated code: it writes to whatever sys.stdout is now
WorkerPrint(w) ==
    /\ workers[w].wpc = "exec"
    /\ Outcome(workers[w].code) # "syntax"
    /\ workers[w].left > 0
    /\ workers' = [Write(sys_stdout, w, workers) EXCEPT ![w].left = @ - 1]
    /\ UNCHANGED <<agentVars, sys_stdout, pc, frame, ret, nchats, nloads, nexecs, memories, storeVars>>

\* exec(code, ...) ends: normally, or by an exception; code that hangs never ends
WorkerCodeEnds(w) ==
    /\ workers[w].wpc = "exec"
    /\ LET o == Outcome(workers[w].code) IN
       /\ o # "hang"
       /\ o # "syntax" => workers[w].left = 0
       /\ workers' = [workers EXCEPT
              ![w].wpc = IF o = "ok" THEN "getvalue" ELSE "restore",
              ![w].exc = CASE o = "ok" -> "none"
                           [] o = "syntax" -> "SyntaxError"
                           [] o = "raise" -> "Exception"
                           [] o = "exit" -> "BaseException"]
    /\ UNCHANGED <<agentVars, sys_stdout, pc, frame, ret, nchats, nloads, nexecs, memories, storeVars>>

\* output = sys.stdout.getvalue(): of the stream sys.stdout is bound to now;
\* the real stream has no getvalue (AttributeError)
WorkerGetValue(w) ==
    /\ workers[w].wpc = "getvalue"
    /\ workers' = IF sys_stdout = RealStdout
                  THEN [workers EXCEPT ![w].exc = "Exception", ![w].wpc = "restore"]
                  ELSE [workers EXCEPT ![w].output = workers[sys_stdout].buf,
                                       ![w].wpc = "restore"]
    /\ UNCHANGED <<agentVars, sys_stdout, pc, frame, ret, nchats, nloads, nexecs, memories, storeVars>>

\* result_container after the try block ran to its end (tools.py:267-275): the
\* 'error' key set at creation is never removed
SuccessContainer(wk) ==
    [wk.rc EXCEPT !.success = TRUE,
                  !.result = CodeOf(wk.code).result,
                  !.plot = IF CodeOf(wk.code).plot THEN <<wk.code>> ELSE <<>>,
                  !.output = wk.output,
                  !.has_output = TRUE]

\* result_container after `except SyntaxError` / `except Exception`
FailureContainer(wk) ==
    [wk.rc EXCEPT !.success = FALSE,
                  !.error = IF wk.exc = "SyntaxError" THEN "Syntax Error at line"
                            ELSE "Execution error"]

\* finally: sys.stdout = old_stdout; then the result_container is filled in
\* (only this thread touches it until the caller's join returns)
WorkerRestore(w) ==
    /\ workers[w].wpc = "restore"
    /\ sys_stdout' = workers[w].old_stdout
    /\ workers' = [workers EXCEPT
           ![w].rc = CASE workers[w].exc = "none" -> SuccessContainer(workers[w])
                       [] workers[w].exc = "BaseException" -> @
                       [] OTHER -> FailureContainer(workers[w]),
           ![w].wpc = IF workers[w].exc \in {"SyntaxError", "Exception"}
                      THEN "report" ELSE "done"]
    /\ UNCHANGED <<agentVars, pc, frame, ret, nchats, nloads, nexecs, memories, storeVars>>

\* print(f"SYNTAX ERROR ...") / print(f"EXECUTION ERROR ...") of the handlers
WorkerReport(w) ==
    /\ workers[w].wpc = "report"
    /\ workers' = [Write(sys_stdout, HostText, workers) EXCEPT ![w].wpc = "done"]
    /\ UNCHANGED <<agentVars, sys_stdout, pc, frame, ret, nchats, nloads, nexecs, memories, storeVars>>

\* thread.join(timeout=30) returns because the worker ended
ExecuteJoin(t) ==
    /\ pc[t] = "exec_join"
    /\ workers[frame[t].w].wpc = "done"
    /\ workers' = [workers EXCEPT ![frame[t].w].fate = "joined"]
    /\ frame' = [frame EXCEPT ![t].exec_result = workers[frame[t].w].rc,
                              ![t].returned = Append(@, workers[frame[t].w].rc),
                              ![t].events = Append(@, "exec_return")]
    /\ pc' = [pc EXCEPT ![t] = "exec_done"]
    /\ UNCHANGED <<agentVars, sys_stdout, ret, nchats, nloads, nexecs, memories, storeVars>>

\* thread.join(timeout=30) returns at the deadline and thread.is_alive(): the
\* caller gives the worker up
ExecuteTimeout(t) ==
    /\ pc[t] = "exec_join"
    /\ workers[frame[t].w].wpc # "done"
    /\ workers' = [workers EXCEPT ![frame[t].w].fate = "abandoned"]
    /\ frame' = [frame EXCEPT ![t].exec_result = TimeoutResult,
                              ![t].returned = Append(@, TimeoutResult),
                              ![t].events = Append(@, "exec_return")]
    /\ pc' = [pc EXCEPT ![t] = "exec_done"]
    /\ UNCHANGED <<agentVars, sys_stdout, ret, nchats, nloads, nexecs, memories, storeVars>>

\* a caller other than chat invokes execute_python_code(code, description, filename)
DirectExecute(t, c, f) ==
    /\ t \in DirectCallers
    /\ pc[t] = "idle"
    /\ nexecs < MaxExecs
    /\ nexecs' = nexecs + 1
    /\ ExecuteStart(t, c, f, IdleFrame, workers)
    /\ UNCHANGED <<agentVars, sys_stdout, ret, nchats, nloads, memories, storeVars>>

\* ... and receives its return value
DirectReturn(t) ==
    /\ t \in DirectCallers
    /\ pc[t] = "exec_done"
    /\ ret' = Finished(t, pc[t], frame[t], [kind |-> "exec", result |-> frame[t].exec_result])
    /\ frame' = [frame EXCEPT ![t] = IdleFrame]
    /\ pc' = [pc EXCEPT ![t] = "idle"]
    /\ UNCHANGED <<agentVars, engineVars, nchats, nloads, nexecs, memories, storeVars>>

\* ---------------------------------------------------------- session store
\* a lock that every thread can take at any time
LockFree_Always == TRUE

\* with self._lock: the block is entered when no thread holds the lock
LockFree == session_lock = None

\* a mutation that would leave last_activity as it was
Touched_Never(times, sid) == times

\* session.last_activity = datetime.now() of a stored session
Touched(times, sid) ==
    IF sid \in DOMAIN times THEN [times EXCEPT ![sid].last_activity = now] ELSE times

\* the Session built by create_session: created_at = last_activity = now
Created(times, sid) ==
    times @@ (sid :> [created_at |-> now, last_activity |-> now, context |-> None])

\* del self._sessions[sid] for each of the sids that are stored
Removed(times, sids) == [s \in DOMAIN times \ sids |-> times[s]]

\* InMemorySessionService.create_session(session_id): the app creates the
\* session before it calls chat with its id
CreateSession(sid) ==
    /\ LockFree
    /\ sid \notin DOMAIN sessions
    /\ sessions' = sessions @@ (sid :> <<>>)
    /\ session_info' = Created(session_info, sid)
    /\ UNCHANGED <<current_file_path, chat_session, session_chats, model_sessions,
                   engineVars, pc, frame, ret, nchats, nloads, nexecs, memories, storeVars>>

\* an append that would put the new message in front of the older ones
add_message_Prepend(store, sid, role, content) ==
    IF sid \in DOMAIN store
    THEN [store EXCEPT ![sid] = <<[role |-> role, content |-> content]>> \o @]
    ELSE store

\* InMemorySessionService.add_message: appends under the lock when the session
\* exists, and changes nothing (returns False) when it does not
add_message(store, sid, role, content) ==
    IF sid \in DOMAIN store
    THEN [store EXCEPT ![sid] = Append(@, [role |-> role, content |-> content])]
    ELSE store

\* last_accessed = None: earlier than every time (datetime.min in a sort)
Never == 0

\* an identifier derived from the size of the store instead of a fresh value
uuid4_FromSize(n) == Len(memories) + 1

\* uuid.uuid4() when n values were produced before: a value none of them equals
uuid4(n) == n + 1

\* the positions of the memory stored under memory_id
Slots(bank, memory_id) == {i \in 1..Len(bank) : bank[i].id = memory_id}

\* MemoryBank.add_memory, the part under the lock: the Memory is built and
\* self._memories[memory_id] = memory stores it, in the place of a memory the
\* dictionary already holds under that id, or as a new entry
add_memory(bank, memory_id, content, category) ==
    LET memory == [id |-> memory_id, content |-> content, category |-> category,
                   created_at |-> now, access_count |-> 0, last_accessed |-> Never]
    IN IF Slots(bank, memory_id) # {}
       THEN [i \in 1..Len(bank) |-> IF bank[i].id = memory_id THEN memory ELSE bank[i]]
       ELSE Append(bank, memory)

\* InMemorySessionService.add_message(session_id, role, content), first half:
\* the lock is taken and session = self._sessions.get(session_id)
AddMessageGet(t, sid) ==
    /\ t \in DirectCallers
    /\ pc[t] = "idle"
    /\ nops < MaxOps
    /\ LockFree
    /\ session_lock' = t
    /\ nops' = nops + 1
    /\ frame' = [frame EXCEPT ![t] = [IdleFrame EXCEPT !.sid = sid, !.msg = nops',
                                                       !.found = sid \in DOMAIN sessions]]
    /\ pc' = [pc EXCEPT ![t] = "add_message"]
    /\ UNCHANGED <<agentVars, engineVars, ret, nchats, nloads, nexecs, memories, nuuid, now>>

\* ... second half: False when the session was not found; otherwise the
\* message is appended to the session's history and True is returned; the
\* lock is released (an append to a session object that is no longer in
\* the store changes no history of the store)
AddMessageAppend(t) ==
    /\ pc[t] = "add_message"
    /\ sessions' = IF frame[t].found
                   THEN add_message(sessions, frame[t].sid, "user", frame[t].msg)
                   ELSE sessions
    /\ session_info' = IF frame[t].found THEN Touched(session_info, frame[t].sid)
                        ELSE session_info
    /\ Return(t, [kind |-> "add_message", ok |-> frame[t].found])
    /\ session_lock' = None
    /\ UNCHANGED <<current_file_path, chat_session, session_chats, model_sessions,
                   engineVars, nchats, nloads, nexecs, memories, nuuid, nops, now>>

\* InMemorySessionService.delete_session(session_id), under the lock
delete_session(t, sid) ==
    /\ t \in DirectCallers
    /\ pc[t] = "idle"
    /\ nops < MaxOps
    /\ LockFree
    /\ nops' = nops + 1
    /\ sessions' = [s \in DOMAIN sessions \ {sid} |-> sessions[s]]
    /\ session_info' = Removed(session_info, {sid})
    /\ ret' = Finished(t, "delete_session", [IdleFrame EXCEPT !.sid = sid],
                       [kind |-> "delete_session", ok |-> sid \in DOMAIN sessions])
    /\ UNCHANGED <<current_file_path, chat_session, session_chats, model_sessions,
                   engineVars, pc, frame, nchats, nloads, nexecs, memories,
                   session_lock, nuuid, now>>

\* the ages cleanup_old_sessions is called with
MaxAges == {0, 1}

\* a cleanup that would go by the time a session was created
Expired_ByCreation(info, cutoff_time) == info.created_at < cutoff_time

\* session.last_activity < cutoff_time
Expired(info, cutoff_time) == info.last_activity < cutoff_time

\* InMemorySessionService.cleanup_old_sessions(max_age_hours), before the
\* lock is taken: cutoff_time = datetime.now() - timedelta(hours=max_age_hours)
CleanupCutoff(t, max_age_hours) ==
    /\ t \in DirectCallers
    /\ pc[t] = "idle"
    /\ nops < MaxOps
    /\ nops' = nops + 1
    /\ frame' = [frame EXCEPT ![t] = [IdleFrame EXCEPT !.cutoff_time = now - max_age_hours]]
    /\ pc' = [pc EXCEPT ![t] = "cleanup"]
    /\ UNCHANGED <<agentVars, engineVars, ret, nchats, nloads, nexecs, memories,
                   session_lock, nuuid, now>>

\* ... under the lock: the sessions whose last activity is before the cutoff
\* time are deleted, and their number is returned
cleanup_old_sessions(t) ==
    /\ pc[t] = "cleanup"
    /\ LockFree
    /\ LET sessions_to_remove ==
               {sid \in DOMAIN sessions : Expired(session_info[sid], frame[t].cutoff_time)}
       IN /\ sessions' = [s \in DOMAIN sessions \ sessions_to_remove |-> sessions[s]]
          /\ session_info' = Removed(session_info, sessions_to_remove)
          /\ Return(t, [kind |-> "cleanup_old_sessions",
                        removed_count |-> Cardinality(sessions_to_remove)])
    /\ UNCHANGED <<current_file_path, chat_session, session_chats, model_sessions,
                   engineVars, nchats, nloads, nexecs, memories, storeVars>>

\* the limits get_conversation_history is called with (0 also stands for
\* None: `if limit` is false for both)
HistoryLimits == {0, 1, 2}

\* history[-limit:]: the last limit messages, the whole list when it is shorter
LastMessages(history, limit) ==
    IF limit >= Len(history) THEN history
    ELSE SubSeq(history, Len(history) - limit + 1, Len(history))

\* InMemorySessionService.get_conversation_history(session_id, limit), under
\* the lock: [] for an unknown session, history[-limit:] for a limit that
\* is true, and a copy of the whole history otherwise
get_conversation_history(t, sid, limit) ==
    /\ t \in DirectCallers
    /\ pc[t] = "idle"
    /\ nops < MaxOps
    /\ LockFree
    /\ nops' = nops + 1
    /\ ret' = Finished(t, "get_conversation_history", [IdleFrame EXCEPT !.sid = sid],
                       [kind |-> "get_conversation_history", limit |-> limit,
                        history |-> IF sid \notin DOMAIN sessions THEN <<>>
                                    ELSE IF limit # 0
                                         THEN LastMessages(sessions[sid], limit)
                                         ELSE sessions[sid]])
    /\ UNCHANGED <<agentVars, engineVars, pc, frame, nchats, nloads, nexecs,
                   memories, session_lock, nuuid, now>>

\* InMemorySessionService.create_session(session_id), called with an id of
\* the caller's choice, under the lock: ValueError when a session with the
\* id exists, otherwise a new session with an empty history is stored under it
create_session(t, sid) ==
    /\ t \in DirectCallers
    /\ pc[t] = "idle"
    /\ nops < MaxOps
    /\ LockFree
    /\ nops' = nops + 1
    /\ sessions' = IF sid \in DOMAIN sessions THEN sessions ELSE sessions @@ (sid :> <<>>)
    /\ session_info' = IF sid \in DOMAIN sessions THEN session_info
                        ELSE Created(session_info, sid)
    /\ ret' = Finished(t, "create_session", [IdleFrame EXCEPT !.sid = sid],
                       IF sid \in DOMAIN sessions
                       THEN [kind |-> "ValueError"]
                       ELSE [kind |-> "create_session", session_id |-> sid])
    /\ UNCHANGED <<current_file_path, chat_session, session_chats, model_sessions,
                   engineVars, pc, frame, nchats, nloads, nexecs, memories,
                   session_lock, nuuid, now>>

\* the context a caller passes to update_session (None: no context given)
ContextArgs == {None, "f1"}

\* an update that would create the session when the id is not stored
update_session_Upserts(t, sid, context) ==
    /\ t \in DirectCallers
    /\ pc[t] = "idle"
    /\ nops < MaxOps
    /\ LockFree
    /\ nops' = nops + 1
    /\ sessions' = IF sid \in DOMAIN sessions THEN sessions ELSE sessions @@ (sid :> <<>>)
    /\ session_info' =
          [Touched(IF sid \in DOMAIN sessions THEN session_info
                   ELSE Created(session_info, sid), sid) EXCEPT
              ![sid].context = IF context # None THEN context ELSE @]
    /\ ret' = Finished(t, "update_session", [IdleFrame EXCEPT !.sid = sid],
                       [kind |-> "update_session", ok |-> TRUE])
    /\ UNCHANGED <<current_file_path, chat_session, session_chats, model_sessions,
                   engineVars, pc, frame, nchats, nloads, nexecs, memories,
                   session_lock, nuuid, now>>

\* InMemorySessionService.update_session(session_id, context = ...), under
\* the lock: False for an unknown session; otherwise last_activity is set
\* and the context, when one is given, is updated, and True is returned
update_session(t, sid, context) ==
    /\ t \in DirectCallers
    /\ pc[t] = "idle"
    /\ nops < MaxOps
    /\ LockFree
    /\ nops' = nops + 1
    /\ session_info' =
          IF sid \notin DOMAIN sessions THEN session_info
          ELSE [Touched(session_info, sid) EXCEPT
                   ![sid].context = IF context # None THEN context ELSE @]
    /\ ret' = Finished(t, "update_session", [IdleFrame EXCEPT !.sid = sid],
                       [kind |-> "update_session", ok |-> sid \in DOMAIN sessions])
    /\ UNCHANGED <<current_file_path, chat_session, session_chats, model_sessions, sessions,
                   engineVars, pc, frame, nchats, nloads, nexecs, memories,
                   session_lock, nuuid, now>>

\* InMemorySessionService.get_session(session_id), under the lock: the
\* session or None
get_session(t, sid) ==
    /\ t \in DirectCallers
    /\ pc[t] = "idle"
    /\ nops < MaxOps
    /\ LockFree
    /\ nops' = nops + 1
    /\ ret' = Finished(t, "get_session", [IdleFrame EXCEPT !.sid = sid],
                       [kind |-> "get_session", found |-> sid \in DOMAIN sessions])
    /\ UNCHANGED <<agentVars, engineVars, pc, frame, nchats, nloads, nexecs,
                   memories, session_lock, nuuid, now>>

\* InMemorySessionService.list_sessions(), under the lock: the stored ids
list_sessions(t) ==
    /\ t \in DirectCallers
    /\ pc[t] = "idle"
    /\ nops < MaxOps
    /\ LockFree
    /\ nops' = nops + 1
    /\ ret' = Finished(t, "list_sessions", IdleFrame,
                       [kind |-> "list_sessions", ids |-> DOMAIN sessions])
    /\ UNCHANGED <<agentVars, engineVars, pc, frame, nchats, nloads, nexecs,
                   memories, session_lock, nuuid, now>>

\* ------------------------------------------------------------ memory bank
\* MemoryBank.add_memory(content, category), first half:
\* memory_id = str(uuid.uuid4()), before the lock is taken
AddMemoryId(t, content, category) ==
    /\ t \in DirectCallers
    /\ pc[t] = "idle"
    /\ nops < MaxOps
    /\ nops' = nops + 1
    /\ nuuid' = nuuid + 1
    /\ frame' = [frame EXCEPT ![t] = [IdleFrame EXCEPT !.memory_id = uuid4(nuuid),
                                                       !.content = content,
                                                       !.category = category]]
    /\ pc' = [pc EXCEPT ![t] = "add_memory"]
    /\ UNCHANGED <<agentVars, engineVars, ret, nchats, nloads, nexecs, memories, session_lock, now>>

\* ... second half: the memory is stored under the bank's lock and its id
\* is returned
AddMemoryStore(t) ==
    /\ pc[t] = "add_memory"
    /\ memories' = add_memory(memories, frame[t].memory_id, frame[t].content,
                              frame[t].category)
    /\ Return(t, [kind |-> "add_memory", memory_id |-> frame[t].memory_id])
    /\ UNCHANGED <<agentVars, engineVars, nchats, nloads, nexecs, storeVars>>

\* time passes: a later datetime.now() returns a later value (two calls
\* with no tick between them read the same value)
Tick ==
    /\ now < MaxClock
    /\ now' = now + 1
    /\ UNCHANGED <<agentVars, engineVars, pc, frame, ret, nchats, nloads, nexecs,
                   memories, session_lock, nuuid, nops>>

\* Text is a sequence of characters. The characters of the model: the
\* letters a and s in both cases, and "sz", the German sharp s (U+00DF),
\* which is a lower-case letter that str.lower() leaves as it is.
\* str.lower(), character by character:
LowerChar(c) == CASE c = "A" -> "a" [] c = "S" -> "s" [] OTHER -> c

lower(text) == [i \in 1..Len(text) |-> LowerChar(text[i])]

\* `part in text` of two strings
Contains(text, part) ==
    \E i \in 0..(Len(text) - Len(part)) : SubSeq(text, i + 1, i + Len(part)) = part

\* the test of search_memories for one memory
IsMatch(query_lower, memory) ==
    \/ Contains(lower(memory.content), query_lower)
    \/ Contains(lower(memory.category), query_lower)

\* seq[:limit] for a limit that is not negative
Take(seq, limit) == SubSeq(seq, 1, IF limit < Len(seq) THEN limit ELSE Len(seq))

\* a listing that would put the oldest memory first
ByCreatedAt_Ascending(a, b) == a.created_at < b.created_at

\* the sort keys of get_memories
ByCreatedAt(a, b) == a.created_at > b.created_at
ByAccessCount(a, b) == a.access_count > b.access_count
ByLastAccessed(a, b) == a.last_accessed > b.last_accessed

\* a search that would rank by recency alone
ByRelevance_RecencyOnly(a, b) == a.created_at > b.created_at

\* the sort key of search_memories: (access_count, created_at)
ByRelevance(a, b) ==
    \/ a.access_count > b.access_count
    \/ (a.access_count = b.access_count /\ a.created_at > b.created_at)

\* the comparison of two memories by the key a sort uses
KeyGreater(key, a, b) ==
    CASE key = "access_count" -> ByAccessCount(a, b)
      [] key = "last_accessed" -> ByLastAccessed(a, b)
      [] key = "relevance" -> ByRelevance(a, b)
      [] OTHER -> ByCreatedAt(a, b)

\* list.sort(key, reverse = True): descending by key, and stable, so that
\* elements with equal keys keep the order they had
SortedDescending(seq, key) ==
    LET n == Len(seq)
        rank(i) == 1 + Cardinality({j \in 1..n :
                          \/ KeyGreater(key, seq[j], seq[i])
                          \/ (~KeyGreater(key, seq[i], seq[j]) /\ j < i)})
    IN [r \in 1..n |-> seq[CHOOSE i \in 1..n : rank(i) = r]]

\* an access update that would restart the count
Accessed_Restart(m) == [m EXCEPT !.access_count = 1, !.last_accessed = now]

\* memory.access_count += 1; memory.last_accessed = datetime.now()
Accessed(m) == [m EXCEPT !.access_count = @ + 1, !.last_accessed = now]

\* the bank after the memories with these ids were accessed
AccessedAll(bank, ids) ==
    [i \in 1..Len(bank) |-> IF bank[i].id \in ids THEN Accessed(bank[i]) ELSE bank[i]]

\* no category given: `if category` is false for None and for ""
NoCategory == <<>>

\* the arguments of the direct calls
BankContents == {<<"S", "a">>, <<"sz">>}
BankCategories == {<<"s", "a">>, <<"a">>}
BankQueries == {<<"s", "a">>, <<"S", "A">>, <<"sz">>, <<"a">>}
BankLimits == {0, 1, 2}
SortFields == {"created_at", "access_count", "last_accessed"}
MemoryIds == 1..MaxOps

\* MemoryBank.get_memory(memory_id), under the lock: the memory, with its
\* access statistics updated, or None
get_memory(t, memory_id) ==
    /\ t \in DirectCallers
    /\ pc[t] = "idle"
    /\ nops < MaxOps
    /\ nops' = nops + 1
    /\ memories' = AccessedAll(memories, {memory_id})
    /\ ret' = Finished(t, "get_memory", IdleFrame,
                       [kind |-> "get_memory", memory_id |-> memory_id,
                        memories |-> SelectSeq(memories', LAMBDA m : m.id = memory_id)])
    /\ UNCHANGED <<agentVars, engineVars, pc, frame, nchats, nloads, nexecs,
                   session_lock, nuuid, now>>

\* MemoryBank.get_memories(category, limit, sort_by), under the lock: the
\* memories of the category (all without one), sorted descending by the
\* sort field, cut to the limit
get_memories(t, category, limit, sort_by) ==
    /\ t \in DirectCallers
    /\ pc[t] = "idle"
    /\ nops < MaxOps
    /\ nops' = nops + 1
    /\ LET filtered == IF category # NoCategory
                       THEN SelectSeq(memories, LAMBDA m : m.category = category)
                       ELSE memories
           sorted == SortedDescending(filtered, sort_by)
       IN ret' = Finished(t, "get_memories", IdleFrame,
                          [kind |-> "get_memories", category |-> category, limit |-> limit,
                           sort_by |-> sort_by, memories |-> Take(sorted, limit)])
    /\ UNCHANGED <<agentVars, engineVars, pc, frame, nchats, nloads, nexecs,
                   memories, session_lock, nuuid, now>>

\* MemoryBank.search_memories(query, limit), under the lock: the matches,
\* sorted descending by (access_count, created_at), cut to the limit; the
\* access statistics of the returned memories are updated
search_memories(t, query, limit) ==
    /\ t \in DirectCallers
    /\ pc[t] = "idle"
    /\ nops < MaxOps
    /\ nops' = nops + 1
    /\ LET query_lower == lower(query)
           matches == SortedDescending(
                          SelectSeq(memories, LAMBDA m : IsMatch(query_lower, m)),
                          "relevance")
           returned == {Take(matches, limit)[i].id : i \in 1..Len(Take(matches, limit))}
       IN /\ memories' = AccessedAll(memories, returned)
          /\ ret' = Finished(t, "search_memories", IdleFrame,
                             [kind |-> "search_memories", query |-> query, limit |-> limit,
                              memories |-> [i \in 1..Len(Take(matches, limit)) |->
                                               Accessed(Take(matches, limit)[i])]])
    /\ UNCHANGED <<agentVars, engineVars, pc, frame, nchats, nloads, nexecs,
                   session_lock, nuuid, now>>

\* MemoryBank.delete_memory(memory_id), under the lock
delete_memory(t, memory_id) ==
    /\ t \in DirectCallers
    /\ pc[t] = "idle"
    /\ nops < MaxOps
    /\ nops' = nops + 1
    /\ memories' = SelectSeq(memories, LAMBDA m : m.id # memory_id)
    /\ ret' = Finished(t, "delete_memory", IdleFrame,
                       [kind |-> "delete_memory", memory_id |-> memory_id,
                        ok |-> Slots(memories, memory_id) # {}])
    /\ UNCHANGED <<agentVars, engineVars, pc, frame, nchats, nloads, nexecs,
                   session_lock, nuuid, now>>

\* MemoryBank.get_summary(), under the lock: the total, the count of each
\* category and the five most accessed memories
get_summary(t) ==
    /\ t \in DirectCallers
    /\ pc[t] = "idle"
    /\ nops < MaxOps
    /\ nops' = nops + 1
    /\ ret' = Finished(t, "get_summary", IdleFrame,
                       [kind |-> "get_summary", total_memories |-> Len(memories),
                        categories |-> [c \in {memories[i].category : i \in 1..Len(memories)} |->
                                           Cardinality({i \in 1..Len(memories) :
                                                           memories[i].category = c})],
                        most_accessed |-> Take(SortedDescending(memories, "access_count"), 5)])
    /\ UNCHANGED <<agentVars, engineVars, pc, frame, nchats, nloads, nexecs,
                   memories, session_lock, nuuid, now>>

\* MemoryBank.clear_all(), under the lock
clear_all(t) ==
    /\ t \in DirectCallers
    /\ pc[t] = "idle"
    /\ nops < MaxOps
    /\ nops' = nops + 1
    /\ memories' = <<>>
    /\ ret' = Finished(t, "clear_all", IdleFrame,
                       [kind |-> "clear_all", count |-> Len(memories)])
    /\ UNCHANGED <<agentVars, engineVars, pc, frame, nchats, nloads, nexecs,
                   session_lock, nuuid, now>>

\* ----------------------------------------------------------- orchestrator
\* AgentResponse(...).model_dump()
AgentResponse(response, plot_config, code, has_log, tool_calls, errors, warnings) ==
    [kind |-> "response", response |-> response, plot_config |-> plot_config,
     code |-> code, has_log |-> has_log,
     tool_calls |-> tool_calls, errors |-> errors, warnings |-> warnings]

\* the call ended by an exception that chat does not catch
Raised(what) == [kind |-> "raised", exception |-> what]

\* chat_session.send_message(system_instruction) as seen by the model
\* session: the instruction, with its dataset pointer, enters its context
Primed(ms, cs, pointer) == [ms EXCEPT ![cs].system = Append(@, pointer)]

\* the first message of a retry: the user message behind the neutral prefix
UserTurn(fr) ==
    IF fr.retry_count > 0
    THEN [kind |-> "retry", body |-> <<"Analyze this dataset and provide insights: ", fr.msg>>]
    ELSE [kind |-> "user", body |-> <<fr.msg>>]

\* a loop that would report a failed result to the model as a plain error
\* note instead of as the tool's function response
FunctionResponse_FailureAsNote(res) ==
    IF res.success
    THEN [kind |-> "function_response", body |-> <<"execute_python_code", res>>]
    ELSE [kind |-> "note", body |-> <<"error", res>>]

\* the function response built from an execution result (the sanitized dict
\* under the tool's name)
FunctionResponse(res) ==
    [kind |-> "function_response", body |-> <<"execute_python_code", res>>]

\* the entry of a call's log of round-trips: the message and what came back
RoundTrip(m, o) ==
    [kind |-> m.kind, body |-> m.body,
     outcome |-> IF o.kind \in {"StopCandidateException", "Exception"} THEN o.kind ELSE "reply"]

\* a retry loop whose test is off by one (a third retry)
LastAttempt_OffByOne(fr) == fr.retry_count > max_retries

\* a retry loop that would also log each rejection in the turn's errors
AfterRejection_Logged(fr) ==
    [fr EXCEPT !.retry_count = @ + 1, !.errors = Append(@, "rejected")]

\* the retry loop's test after a rejection: was this the last attempt
LastAttempt(fr) == fr.retry_count >= max_retries

\* the locals after a rejection that leaves attempts: retry_count += 1
AfterRejection(fr) == [fr EXCEPT !.retry_count = @ + 1]

\* what a model round-trip can come back with besides an exception: a reply
\* whose first part is a call of execute_python_code, a call of a tool with
\* another name, text, a part that is neither; a reply with no parts; a reply
\* with no candidate
\* (ncalls: the tool calls the model has issued in this turn so far)
Replies(ncalls) ==
    {[kind |-> "call", code |-> a[1], filename |-> a[2]] :
         a \in IF ncalls < MaxToolCalls THEN ChatCalls ELSE {}}
    \cup {[kind |-> k, code |-> "none", filename |-> "none"] :
              k \in {"othercall", "text", "opaque", "empty", "nocand"}}

\* outcomes of send_message: a reply, StopCandidateException, another exception
Rejected == [kind |-> "StopCandidateException", code |-> "none", filename |-> "none"]
Failed == [kind |-> "Exception", code |-> "none", filename |-> "none"]
Outcomes(ncalls) == Replies(ncalls) \cup {Rejected, Failed}

\* a chat() entry that would add the user message to the session history
\* before it looks at the dataset
ChatCall_LogsFirst(t, sid) ==
    /\ t \in Callers
    /\ pc[t] = "idle"
    /\ nchats < MaxChats
    /\ nchats' = nchats + 1
    /\ sessions' = IF sid # None THEN add_message(sessions, sid, "user", nchats') ELSE sessions
    /\ session_info' = IF sid # None THEN Touched(session_info, sid) ELSE session_info
    /\ IF current_file_path = None
       THEN /\ ret' = Finished(t, pc[t], [IdleFrame EXCEPT !.sid = sid, !.msg = nchats'],
                                AgentResponse("Please upload a dataset first", <<>>, None,
                                              FALSE, <<>>, <<>>, <<>>))
            /\ UNCHANGED <<pc, frame>>
       ELSE /\ frame' = [frame EXCEPT ![t] = [IdleFrame EXCEPT !.sid = sid, !.msg = nchats']]
            /\ pc' = [pc EXCEPT ![t] = "lookup"]
            /\ UNCHANGED ret
    /\ UNCHANGED <<current_file_path, chat_session, session_chats, model_sessions,
                   engineVars, nloads, nexecs, memories, storeVars>>

\* chat() entry: the dataset check, then (session-aware) the user message is
\* added to the session history
ChatCall(t, sid) ==
    /\ t \in Callers
    /\ pc[t] = "idle"
    /\ nchats < MaxChats
    /\ nchats' = nchats + 1
    /\ IF current_file_path = None
       THEN /\ ret' = Finished(t, pc[t], [IdleFrame EXCEPT !.sid = sid, !.msg = nchats'],
                                AgentResponse("Please upload a dataset first", <<>>, None,
                                              FALSE, <<>>, <<>>, <<>>))
            /\ UNCHANGED <<sessions, session_info, pc, frame>>
       ELSE /\ sessions' = IF sid # None
                           THEN add_message(sessions, sid, "user", nchats')
                           ELSE sessions
            /\ session_info' = IF sid # None THEN Touched(session_info, sid)
                                ELSE session_info
            /\ frame' = [frame EXCEPT ![t] = [IdleFrame EXCEPT !.sid = sid, !.msg = nchats']]
            /\ pc' = [pc EXCEPT ![t] = "lookup"]
            /\ UNCHANGED ret
    /\ UNCHANGED <<current_file_path, chat_session, session_chats, model_sessions,
                   engineVars, nloads, nexecs, memories, storeVars>>

\* a lookup that would find no kept session for a session id
KeptSession_DefaultOnly(sid) ==
    IF sid # None THEN NoChat ELSE chat_session

\* the model session kept for a conversation: self._session_chats[session_id]
\* (None when the id is new) or, without a session id, self.chat_session
KeptSession(sid) ==
    IF sid # None
    THEN IF sid \in DOMAIN session_chats THEN session_chats[sid] ELSE NoChat
    ELSE chat_session

\* chat_session = self._session_chats[session_id], the id entered as None
\* when it is new; or chat_session = self.chat_session
ChatLookup(t) ==
    /\ pc[t] = "lookup"
    /\ LET sid == frame[t].sid
           found == KeptSession(sid)
       IN /\ session_chats' = IF sid # None /\ sid \notin DOMAIN session_chats
                              THEN session_chats @@ (sid :> NoChat)
                              ELSE session_chats
          /\ frame' = [frame EXCEPT ![t].cs = found]
          /\ pc' = [pc EXCEPT ![t] = IF found = NoChat THEN "context" ELSE "send"]
    /\ UNCHANGED <<current_file_path, chat_session, model_sessions, sessions, session_info,
                   engineVars, ret, nchats, nloads, nexecs, memories, storeVars>>

\* _prepare_context(): the dataset pointer of the system instruction is
\* built from self.current_file_path as it is now (_get_user_preferences()
\* reads the memory bank with get_memories, which changes nothing)
ChatPrepareContext(t) ==
    /\ pc[t] = "context"
    /\ frame' = [frame EXCEPT ![t].ctx = current_file_path]
    /\ pc' = [pc EXCEPT ![t] = "start_chat"]
    /\ UNCHANGED <<agentVars, engineVars, ret, nchats, nloads, nexecs, memories, storeVars>>

\* chat_session = self.model.start_chat(history=[]) and its saving
ChatStartChat(t) ==
    /\ pc[t] = "start_chat"
    /\ LET id == Len(model_sessions) + 1 IN
       /\ model_sessions' = Append(model_sessions,
                                [sid |-> frame[t].sid, binding |-> nloads, system |-> <<>>])
       /\ frame' = [frame EXCEPT ![t].cs = id]
       /\ IF frame[t].sid # None
          THEN /\ session_chats' = [session_chats EXCEPT ![frame[t].sid] = id]
               /\ UNCHANGED chat_session
          ELSE /\ chat_session' = id
               /\ UNCHANGED session_chats
    /\ pc' = [pc EXCEPT ![t] = "prime"]
    /\ UNCHANGED <<current_file_path, sessions, session_info, engineVars, ret, nchats, nloads, nexecs, memories, storeVars>>

\* response = chat_session.send_message(system_instruction)
ChatPrime(t, o) ==
    /\ pc[t] = "prime"
    /\ LET fr == [frame[t] EXCEPT !.sends =
                     Append(@, RoundTrip([kind |-> "system", body |-> <<frame[t].ctx>>], o))]
       IN /\ model_sessions' = Primed(model_sessions, fr.cs, fr.ctx)
          /\ CASE o.kind = "StopCandidateException" ->
                    /\ ret' = Finished(t, pc[t], fr,
                                AgentResponse("I encountered an error initializing", <<>>, None,
                                    TRUE, <<>>, <<"RECITATION error during system initialization">>, <<>>))
                    /\ frame' = [frame EXCEPT ![t] = IdleFrame]
                    /\ pc' = [pc EXCEPT ![t] = "idle"]
                    /\ workers' = Write(sys_stdout, HostText, workers)
               [] o.kind = "Exception" ->
                    /\ ret' = Finished(t, pc[t], fr, Raised("Exception"))
                    /\ frame' = [frame EXCEPT ![t] = IdleFrame]
                    /\ pc' = [pc EXCEPT ![t] = "idle"]
                    /\ UNCHANGED workers
               [] OTHER ->
                    /\ frame' = [frame EXCEPT ![t] = fr]
                    /\ pc' = [pc EXCEPT ![t] = "send"]
                    /\ UNCHANGED <<ret, workers>>
    /\ UNCHANGED <<current_file_path, chat_session, session_chats, sessions, session_info,
                   sys_stdout, nchats, nloads, nexecs, memories, storeVars>>

\* one pass of the retry loop: the user message (on a retry, behind the
\* neutral prefix) is sent to the model session
ChatSendUser(t, o) ==
    /\ pc[t] = "send"
    /\ LET fr == [frame[t] EXCEPT !.sends = Append(@, RoundTrip(UserTurn(frame[t]), o))] IN
       CASE o.kind = "StopCandidateException" ->
                 /\ workers' = Write(sys_stdout, HostText, workers)
                 /\ IF LastAttempt(fr)
                    THEN /\ ret' = Finished(t, pc[t], fr,
                                     AgentResponse("I'm having trouble generating a response", <<>>, None,
                                         TRUE, <<>>, <<"StopCandidateException after 3 attempts">>,
                                         <<"Consider rephrasing the question">>))
                         /\ frame' = [frame EXCEPT ![t] = IdleFrame]
                         /\ pc' = [pc EXCEPT ![t] = "idle"]
                    ELSE /\ frame' = [frame EXCEPT ![t] = AfterRejection(fr)]
                         /\ UNCHANGED <<pc, ret>>
         [] o.kind = "Exception" ->
                 /\ workers' = Write(sys_stdout, HostText, workers)
                 /\ ret' = Finished(t, pc[t], fr,
                             AgentResponse("I encountered an unexpected error", <<>>, None,
                                 TRUE, <<>>, <<"Unexpected error">>, <<>>))
                 /\ frame' = [frame EXCEPT ![t] = IdleFrame]
                 /\ pc' = [pc EXCEPT ![t] = "idle"]
         [] OTHER ->
                 /\ frame' = [frame EXCEPT ![t] = [fr EXCEPT !.response = o]]
                 /\ pc' = [pc EXCEPT ![t] = "loop"]
                 /\ workers' = IF fr.retry_count > 0
                               THEN Write(sys_stdout, HostText, workers) ELSE workers
                 /\ UNCHANGED ret
    /\ UNCHANGED <<agentVars, sys_stdout, nchats, nloads, nexecs, memories, storeVars>>

\* the tool loop finds a call of execute_python_code in the first part: it
\* prints the call and runs execute_python_code up to the start of the worker
ChatDispatch(t) ==
    /\ t \in Callers
    /\ pc[t] = "loop"
    /\ frame[t].response.kind = "call"
    /\ LET r == frame[t].response
           filename == IF r.filename = "given" THEN current_file_path ELSE r.filename
       IN ExecuteStart(t, r.code, filename,
                       [frame[t] EXCEPT !.executed_code = r.code],
                       Write(sys_stdout, HostText, workers))
    /\ UNCHANGED <<agentVars, sys_stdout, ret, nchats, nloads, nexecs, memories, storeVars>>

\* the first part is a function call of another name: nothing is dispatched,
\* nothing is sent, and the loop tests the same response again
ChatLoopAgain(t) ==
    /\ pc[t] = "loop"
    /\ frame[t].response.kind = "othercall"
    /\ UNCHANGED vars

\* the loop ends: the first part is text (the final answer), the first part
\* is neither a call nor text, or the reply has no parts
ChatLoopExit(t) ==
    /\ pc[t] = "loop"
    /\ frame[t].response.kind \in {"text", "opaque", "empty"}
    /\ frame' = [frame EXCEPT ![t].final_response =
                     IF frame[t].response.kind = "text" THEN "text" ELSE ""]
    /\ pc' = [pc EXCEPT ![t] = "finish"]
    /\ UNCHANGED <<agentVars, engineVars, ret, nchats, nloads, nexecs, memories, storeVars>>

\* response.candidates[0] on a reply without candidates: IndexError
ChatLoopRaise(t) ==
    /\ pc[t] = "loop"
    /\ frame[t].response.kind = "nocand"
    /\ Return(t, Raised("IndexError"))
    /\ UNCHANGED <<agentVars, engineVars, nchats, nloads, nexecs, memories, storeVars>>

\* a loop that would take every result's plot_config, also an empty one
ExtractPlot_Overwrite(res, current) == res.plot

\* final_plot_config after a tool call: the result's plot_config when the
\* call succeeded and the plot_config is not empty, otherwise as it was
ExtractPlot(res, current) ==
    IF res.success /\ res.plot # <<>> THEN res.plot ELSE current

\* a log entry that would carry the result's error also for a success
ToolCallEntry_ErrorAlways(res) ==
    [tool |-> "execute_python_code", success |-> res.success,
     has_result |-> res.result, has_plot_config |-> res.plot # <<>>,
     error |-> res.error]

\* the entry appended to execution_log["tool_calls"]
ToolCallEntry(res) ==
    [tool |-> "execute_python_code", success |-> res.success,
     has_result |-> res.result, has_plot_config |-> res.plot # <<>>,
     error |-> IF res.success THEN None ELSE res.error]

\* after execute_python_code returned: the result is printed and logged, then
\* sent to the model as the function response; the model's reply is the next
\* turn. send_message is outside any try here
ChatFunctionResponse(t, o) ==
    /\ t \in Callers
    /\ pc[t] = "exec_done"
    /\ LET res == frame[t].exec_result
           fr == [frame[t] EXCEPT
                      !.tool_calls = Append(@, ToolCallEntry(res)),
                      !.warnings = IF res.success /\ res.plot = <<>>
                                   THEN Append(@, "no plot_config was generated") ELSE @,
                      !.sends = Append(@, RoundTrip(FunctionResponse(res), o)),
                      !.events = Append(@, "function_response")]
       IN /\ workers' = Write(sys_stdout, HostText, workers)
          /\ IF o.kind \in {"StopCandidateException", "Exception"}
             THEN /\ ret' = Finished(t, pc[t], fr, Raised(o.kind))
                  /\ frame' = [frame EXCEPT ![t] = IdleFrame]
                  /\ pc' = [pc EXCEPT ![t] = "idle"]
             ELSE /\ frame' = [frame EXCEPT ![t] =
                        [fr EXCEPT !.response = o,
                                   !.final_plot_config = ExtractPlot(res, @),
                                   !.events = Append(@, "reply")]]
                  /\ pc' = [pc EXCEPT ![t] = "loop"]
                  /\ UNCHANGED ret
    /\ UNCHANGED <<agentVars, sys_stdout, nchats, nloads, nexecs, memories, storeVars>>

\* ---------------------------------------------------- preference extractor
\* str.strip() takes these characters off both ends of a text
Whitespace == {" ", "\n"}

\* the sentinel the extraction prompt asks for when there is no preference
NONE == <<"N", "O", "N", "E">>

\* text.lstrip(), text.rstrip() and text.strip()
RECURSIVE lstrip(_)
lstrip(text) ==
    IF text # <<>> /\ Head(text) \in Whitespace THEN lstrip(Tail(text)) ELSE text

RECURSIVE rstrip(_)
rstrip(text) ==
    IF text # <<>> /\ text[Len(text)] \in Whitespace
    THEN rstrip(SubSeq(text, 1, Len(text) - 1)) ELSE text

strip(text) == rstrip(lstrip(text))

\* text.split('\n'): the pieces between the line feeds, empty ones included
RECURSIVE split(_)
split(text) ==
    IF \A i \in 1..Len(text) : text[i] # "\n" THEN <<text>>
    ELSE LET i == CHOOSE k \in 1..Len(text) :
                      text[k] = "\n" /\ \A j \in 1..(k - 1) : text[j] # "\n"
         IN <<SubSeq(text, 1, i - 1)>> \o split(SubSeq(text, i + 1, Len(text)))

\* a length check that would also let a line of five characters pass
LongEnough_FromFive(pref) == Len(pref) >= 5

\* `if pref and len(pref) > 5`, the minimum length check
LongEnough(pref) == pref # <<>> /\ Len(pref) > 5

\* the lines _extract_user_preferences saves for the text of the auxiliary
\* model's response: nothing when the stripped text is empty or the sentinel;
\* otherwise the stripped lines that are not empty and not the sentinel and
\* that pass the length check, in their order
Preferences(text) ==
    LET extracted == strip(text)
        stripped == [i \in 1..Len(split(extracted)) |-> strip(split(extracted)[i])]
        preferences == SelectSeq(stripped, LAMBDA p : p # <<>> /\ p # NONE)
    IN IF extracted # <<>> /\ extracted # NONE
       THEN SelectSeq(preferences, LongEnough)
       ELSE <<>>

\* the memory bank after add_memory(content = pref, category =
\* 'user_preference') for each of the lines, the n-th and later uuid4
\* values being drawn for them
RECURSIVE SavePreferences(_, _, _)
SavePreferences(bank, n, prefs) ==
    IF prefs = <<>> THEN bank
    ELSE SavePreferences(add_memory(bank, uuid4(n), Head(prefs), "user_preference"),
                         n + 1, Tail(prefs))

\* an extractor that would let the failure of its model call reach chat
ExtractorEnds_Propagates(extraction) ==
    IF extraction.kind = "Exception" THEN "raises" ELSE "returns"

\* how _extract_user_preferences ends: `except Exception` around its whole
\* body prints the failure, and the method returns None
ExtractorEnds(extraction) == "returns"

\* the lines that are saved before the extractor ends: all the lines of the
\* text; none when the model call raised or the response has no text; the
\* ones before the write that raised (failing: the number of that write, 0
\* when no write raises)
SavedBy(extraction) ==
    LET prefs == IF extraction.kind = "text" THEN Preferences(extraction.text) ELSE <<>>
    IN IF extraction.failing > 0 /\ extraction.failing <= Len(prefs)
       THEN SubSeq(prefs, 1, extraction.failing - 1)
       ELSE prefs

\* what the extractor's own model call comes back with (kind: "text", a
\* response with text; "no_text", a response without; "Exception", the call
\* raises) and which of its memory writes fails
Extraction(kind, text, failing) == [kind |-> kind, text |-> text, failing |-> failing]

\* a line that states a preference, and what the extractor meets in a turn
\* that is about something else: the sentinel, a preference, a failure
Preference == <<"L", "i", "k", "e", "s", ":", "x">>
Extractions ==
    {Extraction("text", NONE, 0), Extraction("text", Preference, 0),
     Extraction("Exception", <<>>, 0)}
\* the extractor is not looked at: its model call answers with the sentinel
Unremarkable == Extraction("text", NONE, 0)

\* the AgentResponse is built, the answer is added to the session history, an
\* answer that reads like an insight is stored in the memory bank, the
\* preferences extracted from the turn are stored, and chat returns
\* (insight: the answer is longer than 50 characters and has a keyword; the
\* content of a memory is a text, a sequence, and the answer one piece of it)
ChatFinish(t, insight, extraction) ==
    /\ pc[t] = "finish"
    /\ LET fr == [frame[t] EXCEPT !.extraction = extraction]
           text == IF fr.final_response # "" THEN fr.final_response ELSE "Analysis complete."
           value == AgentResponse(text, fr.final_plot_config, fr.executed_code,
                                  TRUE, fr.tool_calls, fr.errors, fr.warnings)
           isInsight == fr.sid # None /\ fr.final_response # "" /\ insight
           drawn == IF isInsight THEN nuuid + 1 ELSE nuuid
           stored == IF isInsight
                     THEN add_memory(memories, uuid4(nuuid), <<fr.final_response>>, "insight")
                     ELSE memories
           saved == SavedBy(extraction)
       IN /\ sessions' = IF fr.sid # None
                          THEN add_message(sessions, fr.sid, "assistant", text)
                          ELSE sessions
          /\ session_info' = IF fr.sid # None THEN Touched(session_info, fr.sid)
                              ELSE session_info
          /\ memories' = SavePreferences(stored, drawn, saved)
          /\ nuuid' = drawn + Len(saved)
          /\ ret' = Finished(t, pc[t], fr,
                              IF ExtractorEnds(extraction) = "raises"
                              THEN Raised("Exception") ELSE value)
          /\ frame' = [frame EXCEPT ![t] = IdleFrame]
          /\ pc' = [pc EXCEPT ![t] = "idle"]
    /\ workers' = Write(sys_stdout, HostText, workers)
    /\ UNCHANGED <<current_file_path, chat_session, session_chats, model_sessions,
                   sys_stdout, nchats, nloads, nexecs, session_lock, nops, now>>

\* load_dataset(file_path), first half: the existence check and
\* self.current_file_path = file_path
LoadDatasetBind(t, f) ==
    /\ t \in Callers
    /\ pc[t] = "idle"
    /\ nloads < MaxLoads
    /\ IF Exists(f)
       THEN /\ current_file_path' = f
            /\ pc' = [pc EXCEPT ![t] = "load_reset"]
            /\ nloads' = nloads + 1
            /\ UNCHANGED ret
       ELSE /\ ret' = Finished(t, pc[t], IdleFrame, Raised("FileNotFoundError"))
            /\ UNCHANGED <<current_file_path, pc, nloads>>
    /\ UNCHANGED <<chat_session, session_chats, model_sessions, sessions, session_info,
                   engineVars, frame, nchats, nexecs, memories, storeVars>>

\* load_dataset, second half: self.chat_session = None
LoadDatasetReset(t) ==
    /\ pc[t] = "load_reset"
    /\ chat_session' = NoChat
    /\ pc' = [pc EXCEPT ![t] = "idle"]
    /\ ret' = Finished(t, pc[t], IdleFrame, [kind |-> "loaded"])
    /\ UNCHANGED <<current_file_path, session_chats, model_sessions, sessions, session_info,
                   engineVars, frame, nchats, nloads, nexecs, memories, storeVars>>

\* a model that answers every turn in short text with no preference in it,
\* or not at all
TextOutcomes == {[kind |-> "text", code |-> "none", filename |-> "none"], Rejected, Failed}

\* Request threads calling load_dataset and chat concurrently, against a model
\* that answers in text: sessions, priming and dataset binding.
Next ==
    \/ \E sid \in SessionIds : CreateSession(sid)
    \/ \E t \in Callers, f \in Files \cup {MissingFile} : LoadDatasetBind(t, f)
    \/ \E t \in Callers : LoadDatasetReset(t)
    \/ \E t \in Callers, sid \in SidArgs : ChatCall(t, sid)
    \/ \E t \in Callers : ChatLookup(t)
    \/ \E t \in Callers : ChatPrepareContext(t)
    \/ \E t \in Callers : ChatStartChat(t)
    \/ \E t \in Callers : \E o \in TextOutcomes : ChatPrime(t, o)
    \/ \E t \in Callers : \E o \in TextOutcomes : ChatSendUser(t, o)
    \/ \E t \in Callers : ChatLoopExit(t)
    \/ \E t \in Callers : ChatFinish(t, FALSE, Unremarkable)

Spec == Init /\ [][Next]_vars

\* The same, with one request thread: calls that follow one another.
SeqCallers == {"c1"}

NextSeq ==
    \/ \E sid \in SessionIds : CreateSession(sid)
    \/ \E t \in SeqCallers, f \in Files \cup {MissingFile} : LoadDatasetBind(t, f)
    \/ \E t \in SeqCallers : LoadDatasetReset(t)
    \/ \E t \in SeqCallers, sid \in SidArgs : ChatCall(t, sid)
    \/ \E t \in SeqCallers : ChatLookup(t)
    \/ \E t \in SeqCallers : ChatPrepareContext(t)
    \/ \E t \in SeqCallers : ChatStartChat(t)
    \/ \E t \in SeqCallers : \E o \in TextOutcomes : ChatPrime(t, o)
    \/ \E t \in SeqCallers : \E o \in TextOutcomes : ChatSendUser(t, o)
    \/ \E t \in SeqCallers : ChatLoopExit(t)
    \/ \E t \in SeqCallers : ChatFinish(t, FALSE, Unremarkable)

SpecSeq == Init /\ [][NextSeq]_vars

\* One chat call of one request thread, a dataset bound and a session
\* created, against a model that may answer anything: the turn loop with its
\* tool calls and workers.
TurnCallers == {"c1"}

InitTurn ==
    /\ current_file_path = "f1"
    /\ chat_session = NoChat
    /\ session_chats = <<>>
    /\ model_sessions = <<>>
    /\ sessions = ("s1" :> <<>>)
    /\ session_info = ("s1" :> [created_at |-> 1, last_activity |-> 1, context |-> None])
    /\ memories = <<>>
    /\ sys_stdout = RealStdout
    /\ workers = <<>>
    /\ pc = [t \in Threads |-> "idle"]
    /\ frame = [t \in Threads |-> IdleFrame]
    /\ ret = NoReturn
    /\ nchats = 0
    /\ nloads = 0
    /\ nexecs = 0
    /\ session_lock = None
    /\ nuuid = 0
    /\ nops = 0
    /\ now = 1

NextTurn ==
    \/ \E t \in TurnCallers, sid \in SessionIds : nchats = 0 /\ ChatCall(t, sid)
    \/ \E t \in TurnCallers : ChatLookup(t)
    \/ \E t \in TurnCallers : ChatPrepareContext(t)
    \/ \E t \in TurnCallers : ChatStartChat(t)
    \/ \E t \in TurnCallers : \E o \in Outcomes(0) : ChatPrime(t, o)
    \/ \E t \in TurnCallers : \E o \in Outcomes(0) : ChatSendUser(t, o)
    \/ \E t \in TurnCallers : ChatDispatch(t)
    \/ \E t \in TurnCallers : ChatLoopAgain(t)
    \/ \E t \in TurnCallers : ChatLoopExit(t)
    \/ \E t \in TurnCallers : ChatLoopRaise(t)
    \/ \E t \in TurnCallers : ExecuteJoin(t)
    \/ \E t \in TurnCallers : ExecuteTimeout(t)
    \/ \E t \in TurnCallers : \E o \in Outcomes(Len(frame[t].tool_calls) + 1) :
           ChatFunctionResponse(t, o)
    \/ \E t \in TurnCallers : \E insight \in BOOLEAN, e \in Extractions : ChatFinish(t, insight, e)
    \/ \E w \in WorkerIds : WorkerSave(w)
    \/ \E w \in WorkerIds : WorkerRedirect(w)
    \/ \E w \in WorkerIds : WorkerPrint(w)
    \/ \E w \in WorkerIds : WorkerCodeEnds(w)
    \/ \E w \in WorkerIds : WorkerGetValue(w)
    \/ \E w \in WorkerIds : WorkerRestore(w)
    \/ \E w \in WorkerIds : WorkerReport(w)

SpecTurn == InitTurn /\ [][NextTurn]_vars

\* one caller's turns with and without a session id, against a model that
\* asks for code that plots, that does not plot, or that fails
LogCodes == {"print_ok", "ok_nores", "ok_noplot", "div0"}

LogReplies(ncalls) ==
    {[kind |-> "call", code |-> c, filename |-> "given"] :
         c \in IF ncalls < MaxToolCalls THEN LogCodes ELSE {}}
    \cup {[kind |-> k, code |-> "none", filename |-> "none"] : k \in {"text", "empty"}}

NextLog ==
    \/ \E t \in TurnCallers, sid \in SidArgs : ChatCall(t, sid)
    \/ \E t \in TurnCallers : ChatLookup(t)
    \/ \E t \in TurnCallers : ChatPrepareContext(t)
    \/ \E t \in TurnCallers : ChatStartChat(t)
    \/ \E t \in TurnCallers : \E o \in LogReplies(MaxToolCalls) : ChatPrime(t, o)
    \/ \E t \in TurnCallers : \E o \in LogReplies(0) : ChatSendUser(t, o)
    \/ \E t \in TurnCallers : ChatDispatch(t)
    \/ \E t \in TurnCallers : ChatLoopExit(t)
    \/ \E t \in TurnCallers : ExecuteJoin(t)
    \/ \E t \in TurnCallers : \E o \in LogReplies(Len(frame[t].tool_calls) + 1) :
           ChatFunctionResponse(t, o)
    \/ \E t \in TurnCallers : \E insight \in BOOLEAN, e \in Extractions : ChatFinish(t, insight, e)
    \/ \E w \in WorkerIds : WorkerSave(w)
    \/ \E w \in WorkerIds : WorkerRedirect(w)
    \/ \E w \in WorkerIds : WorkerPrint(w)
    \/ \E w \in WorkerIds : WorkerCodeEnds(w)
    \/ \E w \in WorkerIds : WorkerGetValue(w)
    \/ \E w \in WorkerIds : WorkerRestore(w)
    \/ \E w \in WorkerIds : WorkerReport(w)

SpecLog == InitTurn /\ [][NextLog]_vars

\* the most lines in a text of the extractor's model
MaxLines == 2

\* lines the extractor's model writes: blank ones, the sentinel, lines of
\* five, six and seven characters, bare and between spaces
ExtractedLines ==
    {<<>>, <<" ">>, NONE, <<" ">> \o NONE,
     <<"L", "i", "k", "e", "s">>, <<" ", "L", "i", "k", "e", "s", " ">>,
     <<"L", "i", "k", "e", "s", ":">>, <<" ">> \o Preference \o <<" ">>}

\* '\n'.join(lines)
RECURSIVE Join(_)
Join(lines) ==
    IF lines = <<>> THEN <<>>
    ELSE IF Len(lines) = 1 THEN lines[1]
    ELSE lines[1] \o <<"\n">> \o Join(Tail(lines))

ExtractedTexts ==
    {Join(lines) : lines \in UNION {[1..n -> ExtractedLines] : n \in 0..MaxLines}}

\* everything the extractor can meet: a text whose writes succeed or fail
\* at some write, a response without text, a model call that raises
ExtractorOutcomes ==
    {Extraction("text", text, failing) : text \in ExtractedTexts, failing \in 0..MaxLines}
    \cup {Extraction("no_text", <<>>, 0), Extraction("Exception", <<>>, 0)}

\* one caller's turns against a model that answers in text, with an
\* extractor that can meet anything
NextPref ==
    \/ \E t \in TurnCallers, sid \in SidArgs : ChatCall(t, sid)
    \/ \E t \in TurnCallers : ChatLookup(t)
    \/ \E t \in TurnCallers : ChatPrepareContext(t)
    \/ \E t \in TurnCallers : ChatStartChat(t)
    \/ \E t \in TurnCallers : \E o \in LogReplies(MaxToolCalls) : ChatPrime(t, o)
    \/ \E t \in TurnCallers : \E o \in LogReplies(MaxToolCalls) : ChatSendUser(t, o)
    \/ \E t \in TurnCallers : ChatLoopExit(t)
    \/ \E t \in TurnCallers : \E insight \in BOOLEAN, e \in ExtractorOutcomes :
           ChatFinish(t, insight, e)

SpecPref == InitTurn /\ [][NextPref]_vars

\* the shapes of a model turn the tool loop can meet: a call of
\* execute_python_code, a call of a tool with another name, text, a part
\* that is neither, no parts
LoopReplies(ncalls) ==
    {[kind |-> "call", code |-> c, filename |-> "given"] :
         c \in IF ncalls < MaxToolCalls THEN {"print_ok", "div0"} ELSE {}}
    \cup {[kind |-> k, code |-> "none", filename |-> "none"] :
              k \in {"othercall", "text", "opaque", "empty"}}

\* one chat call in which every round-trip with the model returns a reply
NextLoop ==
    \/ \E t \in TurnCallers, sid \in SessionIds : nchats = 0 /\ ChatCall(t, sid)
    \/ \E t \in TurnCallers : ChatLookup(t)
    \/ \E t \in TurnCallers : ChatPrepareContext(t)
    \/ \E t \in TurnCallers : ChatStartChat(t)
    \/ \E t \in TurnCallers : \E o \in LoopReplies(MaxToolCalls) : ChatPrime(t, o)
    \/ \E t \in TurnCallers : \E o \in LoopReplies(0) : ChatSendUser(t, o)
    \/ \E t \in TurnCallers : ChatDispatch(t)
    \/ \E t \in TurnCallers : ChatLoopAgain(t)
    \/ \E t \in TurnCallers : ChatLoopExit(t)
    \/ \E t \in TurnCallers : ExecuteJoin(t)
    \/ \E t \in TurnCallers : ExecuteTimeout(t)
    \/ \E t \in TurnCallers : \E o \in LoopReplies(Len(frame[t].tool_calls) + 1) :
           ChatFunctionResponse(t, o)
    \/ \E t \in TurnCallers : \E insight \in BOOLEAN, e \in Extractions : ChatFinish(t, insight, e)
    \/ \E w \in WorkerIds : WorkerSave(w)
    \/ \E w \in WorkerIds : WorkerRedirect(w)
    \/ \E w \in WorkerIds : WorkerPrint(w)
    \/ \E w \in WorkerIds : WorkerCodeEnds(w)
    \/ \E w \in WorkerIds : WorkerGetValue(w)
    \/ \E w \in WorkerIds : WorkerRestore(w)
    \/ \E w \in WorkerIds : WorkerReport(w)

\* every thread that can take a step takes one in the end: the request
\* thread and the workers are scheduled by the operating system, the model
\* and the engine answer every call
SpecLoop == InitTurn /\ [][NextLoop]_vars /\ WF_vars(NextLoop)

NextExec ==
    \/ \E t \in DirectCallers, c \in ExecCodes, f \in {"f1", MissingFile} : DirectExecute(t, c, f)
    \/ \E t \in DirectCallers : ExecuteJoin(t)
    \/ \E t \in DirectCallers : ExecuteTimeout(t)
    \/ \E t \in DirectCallers : DirectReturn(t)
    \/ \E w \in WorkerIds : WorkerSave(w)
    \/ \E w \in WorkerIds : WorkerRedirect(w)
    \/ \E w \in WorkerIds : WorkerPrint(w)
    \/ \E w \in WorkerIds : WorkerCodeEnds(w)
    \/ \E w \in WorkerIds : WorkerGetValue(w)
    \/ \E w \in WorkerIds : WorkerRestore(w)
    \/ \E w \in WorkerIds : WorkerReport(w)

\* the engine under concurrent direct callers
SpecExec == Init /\ [][NextExec]_vars

\* the engine called by one caller, one call after the other, with every
\* kind of code
CallCallers == {"d1"}

NextCall ==
    \/ \E t \in CallCallers, c \in AllCodes, f \in {"f1", MissingFile} : DirectExecute(t, c, f)
    \/ \E t \in CallCallers : ExecuteJoin(t)
    \/ \E t \in CallCallers : ExecuteTimeout(t)
    \/ \E t \in CallCallers : DirectReturn(t)
    \/ \E w \in WorkerIds : WorkerSave(w)
    \/ \E w \in WorkerIds : WorkerRedirect(w)
    \/ \E w \in WorkerIds : WorkerPrint(w)
    \/ \E w \in WorkerIds : WorkerCodeEnds(w)
    \/ \E w \in WorkerIds : WorkerGetValue(w)
    \/ \E w \in WorkerIds : WorkerRestore(w)
    \/ \E w \in WorkerIds : WorkerReport(w)

SpecCall == Init /\ [][NextCall]_vars

\* the memory bank under concurrent direct callers
MemoryContents == {"finding", "preference"}
MemoryCategories == {"insight", "user_preference"}

NextMem ==
    \/ \E t \in DirectCallers, content \in MemoryContents, category \in MemoryCategories :
          AddMemoryId(t, content, category)
    \/ \E t \in DirectCallers : AddMemoryStore(t)

SpecMem == Init /\ [][NextMem]_vars

\* the memory bank's operations called one after the other as time passes
NextBank ==
    \/ Tick
    \/ \E t \in CallCallers, content \in BankContents, category \in BankCategories :
          AddMemoryId(t, content, category)
    \/ \E t \in CallCallers : AddMemoryStore(t)
    \/ \E t \in CallCallers, id \in MemoryIds : get_memory(t, id)
    \/ \E t \in CallCallers, category \in BankCategories \cup {NoCategory},
             limit \in BankLimits, sort_by \in SortFields :
          get_memories(t, category, limit, sort_by)
    \/ \E t \in CallCallers, query \in BankQueries, limit \in BankLimits :
          search_memories(t, query, limit)
    \/ \E t \in CallCallers, id \in MemoryIds : delete_memory(t, id)
    \/ \E t \in CallCallers : get_summary(t)
    \/ \E t \in CallCallers : clear_all(t)

SpecBank == Init /\ [][NextBank]_vars

\* the session store under concurrent direct callers
StoreSessionIds == {"s1", "s2"}

NextStore ==
    \/ \E sid \in StoreSessionIds : CreateSession(sid)
    \/ \E t \in DirectCallers, sid \in StoreSessionIds : AddMessageGet(t, sid)
    \/ \E t \in DirectCallers : AddMessageAppend(t)
    \/ \E t \in DirectCallers, sid \in StoreSessionIds : delete_session(t, sid)
    \/ \E t \in DirectCallers, max_age_hours \in MaxAges : CleanupCutoff(t, max_age_hours)
    \/ \E t \in DirectCallers : cleanup_old_sessions(t)
    \/ \E t \in DirectCallers, sid \in StoreSessionIds : create_session(t, sid)
    \/ \E t \in DirectCallers, sid \in StoreSessionIds, limit \in HistoryLimits :
          get_conversation_history(t, sid, limit)
    \/ \E t \in DirectCallers, sid \in StoreSessionIds, context \in ContextArgs :
          update_session(t, sid, context)
    \/ \E t \in DirectCallers, sid \in StoreSessionIds : get_session(t, sid)
    \/ \E t \in DirectCallers : list_sessions(t)
    \/ Tick

SpecStore == Init /\ [][NextStore]_vars

\* ------------------------------------------------------------- properties
\* the priming messages, the user-turn attempts and the function responses
\* among the messages one chat call sent
SystemSends(sends) == SelectSeq(sends, LAMBDA m : m.kind = "system")
UserTurnSends(sends) == SelectSeq(sends, LAMBDA m : m.kind \in {"user", "retry"})
FunctionResponseSends(sends) == SelectSeq(sends, LAMBDA m : m.kind = "function_response")

\* the model sessions started for conversation sid while dataset binding b was current
SessionsOf(sid, b) ==
    {c \in DOMAIN model_sessions : model_sessions[c].sid = sid /\ model_sessions[c].binding = b}

\* the last call to return was a chat call
ChatReturned == ret.thread \in Callers /\ ret.msg > 0

\* C1: chat calls that follow one another with the same session id and no
\* dataset rebinding in between prime the model once, on the first call: for
\* each conversation and dataset binding at most one model session is
\* started, it receives the system instruction at most once, a call sends the
\* instruction only as its first message, and a call that sends the user
\* turn talks to a session that holds exactly one instruction.
C1_PrimedOncePerSession ==
    /\ \A sid \in SidArgs, b \in 0..MaxLoads : Cardinality(SessionsOf(sid, b)) <= 1
    /\ \A c \in DOMAIN model_sessions : Len(model_sessions[c].system) <= 1
    /\ \A t \in Callers :
          /\ Len(SystemSends(frame[t].sends)) <= 1
          /\ \A i \in 2..Len(frame[t].sends) : frame[t].sends[i].kind # "system"
          /\ pc[t] \in {"send", "loop", "finish"} =>
                Len(model_sessions[frame[t].cs].system) = 1
    /\ ChatReturned =>
          /\ Len(SystemSends(ret.sends)) <= 1
          /\ \A i \in 2..Len(ret.sends) : ret.sends[i].kind # "system"

\* a second call on session id s1 has returned its answer after sending the
\* user message alone, to the session the first call primed
C1_SecondCallUnprimed ==
    /\ ChatReturned /\ ret.at = "finish" /\ ret.sid = "s1" /\ ret.msg = 2
    /\ SystemSends(ret.sends) = <<>>
    /\ Len(UserTurnSends(ret.sends)) >= 1
    /\ Len(model_sessions[ret.cs].system) = 1

\* C2: in every interleaving of chat calls at most one model session is
\* created and primed per session id, and every call of that id talks to it.
C2_OneModelSessionPerId ==
    \A sid \in SessionIds :
        /\ Cardinality({c \in DOMAIN model_sessions : model_sessions[c].sid = sid}) <= 1
        /\ \A t \in Callers :
              (frame[t].sid = sid /\ frame[t].cs # NoChat /\ sid \in DOMAIN session_chats)
                  => frame[t].cs = session_chats[sid]

\* C6: after load_dataset every conversation starts unprimed: a chat call
\* that sends its user turn talks to a model session started under the
\* current dataset binding and primed with the current dataset pointer.
C6_RebindResetsEverySession ==
    \A t \in Callers :
        pc[t] = "send" =>
            /\ model_sessions[frame[t].cs].binding = nloads
            /\ model_sessions[frame[t].cs].system = <<current_file_path>>

\* C3: chat never raises to its caller: whatever fails in a model round-trip
\* (priming, user turn, function response) and whatever the reply lacks, the
\* call returns an AgentResponse, and on those paths one with an execution
\* log whose errors are populated.
C3_ChatNeverRaises ==
    ChatReturned =>
        /\ ret.value.kind = "response"
        /\ (\E i \in 1..Len(ret.sends) : ret.sends[i].outcome = "Exception")
               => (ret.value.has_log /\ ret.value.errors # <<>>)

\* how many of a call's user-turn attempts the model rejected, and whether
\* the last attempt was accepted within the retry budget
Rejections(sends) ==
    Len(SelectSeq(UserTurnSends(sends), LAMBDA m : m.outcome = "StopCandidateException"))
AcceptedWithinBudget(sends) ==
    LET u == UserTurnSends(sends) IN
        /\ Len(u) >= 1
        /\ Len(u) <= max_retries + 1
        /\ u[Len(u)].outcome = "reply"
        /\ \A i \in 1..(Len(u) - 1) : u[i].outcome = "StopCandidateException"

\* C4: when the model rejects the user turn on the first k <= 2 attempts and
\* accepts the next one, chat goes on into the tool loop with no error
\* logged, and the AgentResponse it returns for the turn is the normal one:
\* built at the end of the loop, with empty execution_log.errors and the
\* model's text (or the default text), not a diagnostic.
C4_RetryWithinBudget ==
    /\ \A t \in Callers :
          AcceptedWithinBudget(frame[t].sends) =>
              /\ pc[t] \in {"loop", "exec_join", "exec_done", "finish"}
              /\ frame[t].errors = <<>>
    /\ (ChatReturned /\ AcceptedWithinBudget(ret.sends) /\ ret.value.kind = "response") =>
          /\ ret.at = "finish"
          /\ ret.value.errors = <<>>
          /\ ret.value.response \in {"text", "Analysis complete."}

\* two rejections, an accepted third attempt, a tool call, and the turn's answer returned
C4_AcceptedOnThirdAttempt ==
    /\ ChatReturned /\ ret.at = "finish"
    /\ Rejections(ret.sends) = 2
    /\ AcceptedWithinBudget(ret.sends)
    /\ Len(ret.value.tool_calls) >= 1
    /\ ret.value.errors = <<>>

\* C5: chat never sends the user turn more than 3 times; when the model
\* rejects all 3, the attempts are the user message and then twice the same
\* message behind the neutral prefix, and chat returns an AgentResponse with
\* no code, no plot_config, no tool calls and a non-empty errors list.
C5_ThreeRejections ==
    /\ \A t \in Callers :
          /\ Len(UserTurnSends(frame[t].sends)) <= max_retries + 1
          /\ Rejections(frame[t].sends) <= max_retries
    /\ ChatReturned =>
          /\ Len(UserTurnSends(ret.sends)) <= max_retries + 1
          /\ Rejections(ret.sends) = max_retries + 1 =>
                /\ [i \in 1..(max_retries + 1) |->
                        <<UserTurnSends(ret.sends)[i].kind, UserTurnSends(ret.sends)[i].body>>]
                     = << <<"user", <<ret.msg>> >>,
                          <<"retry", <<"Analyze this dataset and provide insights: ", ret.msg>> >>,
                          <<"retry", <<"Analyze this dataset and provide insights: ", ret.msg>> >> >>
                /\ ret.at = "send"
                /\ ret.value.kind = "response"
                /\ ret.value.code = None
                /\ ret.value.plot_config = <<>>
                /\ ret.value.tool_calls = <<>>
                /\ ret.value.errors # <<>>

\* the model rejected the user turn three times and chat returned
C5_RejectedThreeTimes ==
    ChatReturned /\ Rejections(ret.sends) = max_retries + 1 /\ ret.value.kind = "response"

\* the order in which the events of one chat invocation must follow one another
EventCycle == <<"exec_call", "exec_return", "function_response", "reply">>
Alternates(ev) == \A i \in 1..Len(ev) : ev[i] = EventCycle[((i - 1) % Len(EventCycle)) + 1]

\* the workers a caller started and is still waiting for
Awaited(t) == {w \in WorkerIds : workers[w].owner = t /\ workers[w].fate = "awaited"}

\* C7: within one chat invocation the events alternate strictly: execute
\* call, its return, the function response, the model's reply, and again; a
\* function response is sent only after the pending execute call returned,
\* no execute call starts before the reply to the previous function response
\* arrived, and at most one tool call is pending.
C7_EventsAlternate ==
    /\ \A t \in Callers :
          /\ Alternates(frame[t].events)
          /\ Cardinality(Awaited(t)) <= 1
          /\ (Awaited(t) # {}) <=> (pc[t] = "exec_join")
          /\ pc[t] = "exec_join" => Awaited(t) = {frame[t].w}
    /\ ChatReturned => Alternates(ret.events)

\* a chat call returned after two complete tool calls
C7_TwoToolCallsServed ==
    /\ ChatReturned /\ ret.at = "finish"
    /\ Len(ret.events) = 2 * Len(EventCycle)
    /\ Len(FunctionResponseSends(ret.sends)) = 2

\* C8 (as stated): whenever the worker of a tool call starts running, the
\* worker of every earlier tool call of the turn has finished.
C8_EarlierWorkersFinished ==
    \A w1, w2 \in WorkerIds :
        (w1 < w2 /\ workers[w1].owner = workers[w2].owner /\ workers[w2].wpc = "save")
            => workers[w1].wpc = "done"

\* C8 (as the code has it): whenever the worker of a tool call starts
\* running, the execute call of every earlier tool call of the turn has
\* returned, and an earlier worker that has not finished is one whose call
\* returned the timeout result (the caller gave it up); the caller never
\* waits for two workers.
C8_EarlierCallsReturned ==
    /\ \A w1, w2 \in WorkerIds :
          (w1 < w2 /\ workers[w1].owner = workers[w2].owner /\ workers[w2].wpc = "save")
              => /\ workers[w1].fate # "awaited"
                 /\ workers[w1].wpc # "done" => workers[w1].fate = "abandoned"
    /\ \A t \in Callers : Cardinality(Awaited(t)) <= 1

\* the second worker of a turn starts while the first, given up at the
\* deadline, is still running
C8_StartsBesideAbandoned ==
    \E w1, w2 \in WorkerIds :
        /\ w1 < w2 /\ workers[w1].owner = workers[w2].owner
        /\ workers[w2].wpc = "save"
        /\ workers[w1].fate = "abandoned" /\ workers[w1].wpc \notin {"done", "save"}

\* C9: a failed execution does not end the call: every result that
\* execute_python_code returned, the failed ones included, is sent to the
\* model as the function response named execute_python_code, carrying
\* success = false and the error, and is recorded with that error in
\* execution_log.tool_calls; after the model's reply the loop goes on.
ResultsReported(sends, returned, pending) ==
    LET f == FunctionResponseSends(sends) IN
        /\ Len(f) = Len(returned) - pending
        /\ \A m \in 1..Len(sends) : sends[m].kind \in {"system", "user", "retry", "function_response"}
        /\ \A i \in 1..Len(f) :
              ~returned[i].success =>
                  /\ f[i].body = <<"execute_python_code", returned[i]>>
                  /\ f[i].body[2].error \in {"File not found", "Syntax Error at line", "Execution error",
                                             "Code execution timed out (30s limit)", "Execution timed out"}
C9_FailureFedBack ==
    /\ \A t \in Callers :
          /\ ResultsReported(frame[t].sends, frame[t].returned, IF pc[t] = "exec_done" THEN 1 ELSE 0)
          /\ Len(frame[t].tool_calls) = Len(FunctionResponseSends(frame[t].sends))
          /\ \A i \in 1..Len(frame[t].tool_calls) :
                ~frame[t].returned[i].success =>
                    /\ frame[t].tool_calls[i].success = FALSE
                    /\ frame[t].tool_calls[i].error = frame[t].returned[i].error
          /\ (pc[t] = "loop" /\ frame[t].returned # <<>>) =>
                FunctionResponseSends(frame[t].sends)[Len(frame[t].returned)].outcome = "reply"
    /\ ChatReturned =>
          /\ ResultsReported(ret.sends, ret.returned, 0)
          /\ ret.value.kind = "response" /\ ret.at = "finish" =>
                /\ Len(ret.value.tool_calls) = Len(ret.returned)
                /\ \A i \in 1..Len(ret.returned) :
                      ~ret.returned[i].success =>
                          ret.value.tool_calls[i].error = ret.returned[i].error

\* the model's first tool call failed, its corrected second call succeeded,
\* and chat returned the answer with both calls in the log
C9_SelfCorrected ==
    /\ ChatReturned /\ ret.at = "finish" /\ Len(ret.returned) = 2
    /\ ~ret.returned[1].success /\ ret.returned[2].success
    /\ ret.value.tool_calls[1].success = FALSE /\ ret.value.tool_calls[2].success = TRUE
    /\ ret.value.code # None

\* C10: the captured stdout of a successful execute call is exactly what its
\* code printed, in every interleaving of concurrent execute calls.
C10_StdoutExact ==
    (ret.thread \in DirectCallers /\ ret.value.kind = "exec" /\ ret.value.result.success)
        => ret.value.result.output = Printed(ret.w)

\* the last call to return was a call of execute_python_code that started a worker
ExecReturned == ret.thread \in DirectCallers /\ ret.value.kind = "exec" /\ ret.w # 0

\* C11: when the worker has not finished at the deadline, execute returns
\* success = false with the timeout error while the worker is still running:
\* the worker is abandoned, whatever it does later leaves the returned
\* result as it was, and a call on code that never ends returns in no other way.
C11_TimeoutAbandons ==
    /\ \A t \in DirectCallers :
          (pc[t] = "exec_done" /\ frame[t].w # 0 /\ workers[frame[t].w].fate = "abandoned") =>
              /\ frame[t].exec_result.success = FALSE
              /\ frame[t].exec_result.error = "Code execution timed out (30s limit)"
    /\ (ExecReturned /\ workers[ret.w].fate = "abandoned") =>
          /\ ret.value.result.success = FALSE
          /\ ret.value.result.error = "Code execution timed out (30s limit)"
          /\ ret.value.result.has_output = FALSE
    /\ \A w \in WorkerIds :
          CodeOf(workers[w].code).outcome = "hang" =>
              /\ workers[w].wpc # "done"
              /\ workers[w].fate # "joined"

\* a call returned the timeout result, and its abandoned worker has since
\* run to its end and filled in its result_container
C11_WorkerFinishedLater ==
    /\ ExecReturned
    /\ workers[ret.w].fate = "abandoned"
    /\ workers[ret.w].wpc = "done"
    /\ workers[ret.w].rc.success = TRUE
    /\ ret.value.result.success = FALSE

\* the allow-list: primitive builtins, print, the tabular-data library, the
\* JSON utility and the filename
AllowList ==
    {"range", "len", "str", "int", "float", "list", "dict", "sum", "min", "max", "abs",
     "round", "sorted", "enumerate", "zip", "print", "isinstance", "type",
     "True", "False", "None", "pd", "json", "filename"}

\* C12: the symbol table gives generated code nothing outside the allow-list:
\* code that needs another name (an import, open) ends with an exception
\* and its result is a failure.
C12_OnlyAllowList ==
    \A w \in WorkerIds :
        (workers[w].wpc = "done" /\ ~(Uses(workers[w].code) \subseteq AllowList)) =>
            /\ workers[w].exc \in {"Exception", "BaseException"}
            /\ workers[w].rc.success = FALSE

\* C13: in every result execute returns, success = true comes with result,
\* plot_spec and stdout and with no error message, and success = false comes
\* with a non-empty error message.
C13_SuccessXorError ==
    (ret.thread \in DirectCallers /\ ret.value.kind = "exec") =>
        /\ ret.value.result.success =>
              /\ ret.value.result.has_output
              /\ ret.value.result.error = None
        /\ ~ret.value.result.success => ret.value.result.error \notin {None, ""}

\* the failure class an error message reports
FailureClass(error) ==
    CASE error = "Syntax Error at line" -> "syntax"
      [] error = "Execution error" -> "runtime"
      [] error \in {"Code execution timed out (30s limit)", "Execution timed out"} -> "timeout"
      [] OTHER -> "other"

\* C14: every failed result of a call that ran code is in exactly one class:
\* syntax for code that does not compile, runtime for any other exception
\* the code raised, timeout for a worker still running at the deadline; a
\* failure of code that ended before the deadline is never reported as a timeout.
C14_OneFailureClass ==
    (ExecReturned /\ ~ret.value.result.success) =>
        LET wk == workers[ret.w]
            class == FailureClass(ret.value.result.error)
        IN /\ wk.fate = "abandoned" => class = "timeout"
           /\ wk.fate = "joined" =>
                 /\ class # "timeout"
                 /\ wk.exc = "SyntaxError" => class = "syntax"
                 /\ wk.exc \in {"Exception", "BaseException"} => class = "runtime"

\* C15: when code prints and then raises, the failed result carries the
\* stdout accumulated up to the fault together with the exception description.
C15_StdoutOnFailure ==
    (ExecReturned /\ workers[ret.w].fate = "joined" /\ workers[ret.w].exc = "Exception"
        /\ CodeOf(workers[ret.w].code).outcome = "raise"
        /\ CodeOf(workers[ret.w].code).prints > 0) =>
            /\ ret.value.result.error = "Execution error"
            /\ ret.value.result.has_output
            /\ ret.value.result.output = Printed(ret.w)

\* C16: when filename names no existing file, execute returns success =
\* false with the file-not-found error at once: the call is never found
\* waiting for a worker, and the step that makes the call starts no worker
\* and leaves the process's stdout binding as it is.
C16_NotFoundShortCircuits ==
    /\ [](\A t \in DirectCallers :
            (pc[t] # "idle" /\ frame[t].filename \notin Files) =>
                /\ pc[t] = "exec_done"
                /\ frame[t].w = 0
                /\ frame[t].exec_result.success = FALSE
                /\ frame[t].exec_result.error = "File not found")
    /\ [][\A t \in DirectCallers :
            (pc[t] = "idle" /\ pc'[t] # "idle" /\ frame'[t].filename \notin Files) =>
                /\ workers' = workers
                /\ sys_stdout' = sys_stdout]_vars

\* a call on a missing file returned its failure while the worker of another
\* call was running with stdout redirected
C16_NotFoundBesideWorker ==
    /\ ret.thread \in DirectCallers /\ ret.value.kind = "exec" /\ ret.w = 0
    /\ ret.value.result.error = "File not found"
    /\ sys_stdout # RealStdout
    /\ \E w \in WorkerIds : workers[w].wpc = "exec" /\ workers[w].buf = <<>>

\* C17: with no dataset bound, chat returns the response that asks for data,
\* having sent nothing to the model; the call creates no model session and
\* leaves the session store, the memory bank and the kept sessions unchanged.
C17_NoDatasetNoEffect ==
    /\ []((ChatReturned /\ ret.at = "idle") =>
            /\ ret.value.kind = "response"
            /\ ret.value.response = "Please upload a dataset first"
            /\ ret.value.code = None /\ ret.value.plot_config = <<>>
            /\ ret.sends = <<>>
            /\ ret.cs = NoChat)
    /\ [][(nchats' = nchats + 1 /\ current_file_path = None) =>
            /\ ret'.value.kind = "response"
            /\ ret'.value.response = "Please upload a dataset first"
            /\ model_sessions' = model_sessions
            /\ session_chats' = session_chats
            /\ chat_session' = chat_session
            /\ sessions' = sessions
            /\ memories' = memories
            /\ pc' = pc]_vars

\* chat was called for an existing session with no dataset bound, and the
\* session's history is still empty
C17_AskedForData ==
    /\ ChatReturned /\ ret.at = "idle" /\ ret.sid = "s1"
    /\ current_file_path = None
    /\ "s1" \in DOMAIN sessions /\ sessions["s1"] = <<>>
    /\ model_sessions = <<>>

\* C18: when the model rejects the priming turn, chat returns a diagnostic
\* response (errors, no code, no plot) without sending the user message,
\* and the conversation is left unprimed: no model session is kept for it,
\* so that its next chat call primes again.
C18_RejectedPrimingLeavesUnprimed ==
    (ChatReturned /\ ret.at = "prime" /\ ret.value.kind = "response") =>
        /\ ret.value.errors # <<>>
        /\ ret.value.code = None /\ ret.value.plot_config = <<>>
        /\ UserTurnSends(ret.sends) = <<>>
        /\ KeptSession(ret.sid) = NoChat

\* the memory ids that calls still on their way to the store will use
InFlightIds == {frame[t].memory_id : t \in {u \in DirectCallers : pc[u] = "add_memory"}}

\* C19: memory ids stay unique under concurrent add_memory calls and no add
\* is lost or overwritten: no two stored memories and no two calls on their
\* way share an id, a call on its way holds an id no stored memory has, the
\* store holds one memory for every add that has returned, a returning add
\* finds its own memory in the store under the id it returns, and no stored
\* memory is ever changed or removed by another add
C19_AddsDistinctAndKept ==
    /\ [](/\ \A i, j \in 1..Len(memories) : memories[i].id = memories[j].id => i = j
          /\ \A t, u \in DirectCallers :
                (pc[t] = "add_memory" /\ pc[u] = "add_memory" /\ t # u)
                    => frame[t].memory_id # frame[u].memory_id
          /\ \A id \in InFlightIds : Slots(memories, id) = {}
          /\ Len(memories) + Cardinality(InFlightIds) = nops)
    /\ [][/\ \A i \in 1..Len(memories) :
                i <= Len(memories') /\ memories'[i] = memories[i]
          /\ \A t \in DirectCallers :
                (pc[t] = "add_memory" /\ pc'[t] = "idle") =>
                    /\ ret'.value.memory_id = frame[t].memory_id
                    /\ \E i \in 1..Len(memories') :
                          /\ Slots(memories', ret'.value.memory_id) = {i}
                          /\ memories'[i].content = frame[t].content
                          /\ memories'[i].category = frame[t].category]_vars

\* two add_memory calls overlapped (both had drawn their ids before either
\* stored), both have returned, and both memories are in the store
C19_OverlappingAddsStored ==
    /\ Len(memories) = 2
    /\ nops = 2
    /\ memories[1].id = 2
    /\ memories[2].id = 1
    /\ ret.value.kind = "add_memory"
    /\ \A t \in DirectCallers : pc[t] = "idle"

\* the positions of a message in a session's history
Occurrences(store, sid, content) ==
    IF sid \in DOMAIN store
    THEN {i \in 1..Len(store[sid]) : store[sid][i].content = content}
    ELSE {}

\* C20: the session store's operations take effect one at a time: while an
\* append holds the session it found, that session stays in the store; an
\* append that returns True leaves its message exactly once at the end of
\* the session's history, one that returns False found no session and
\* leaves the store as it was; no step other than a removal of the session
\* takes a message out of a history or reorders it
C20_StoreOperationsAtomic ==
    /\ [](\A t \in DirectCallers :
            pc[t] = "add_message" =>
                /\ session_lock = t
                /\ frame[t].found = (frame[t].sid \in DOMAIN sessions))
    /\ [][/\ \A t \in DirectCallers :
                (pc[t] = "add_message" /\ pc'[t] = "idle") =>
                    IF ret'.value.ok
                    THEN /\ ret'.sid \in DOMAIN sessions'
                         /\ Occurrences(sessions', ret'.sid, ret'.msg)
                               = {Len(sessions'[ret'.sid])}
                         /\ Len(sessions'[ret'.sid]) = Len(sessions[ret'.sid]) + 1
                    ELSE /\ ret'.sid \notin DOMAIN sessions
                         /\ sessions' = sessions
          /\ \A sid \in DOMAIN sessions \cap DOMAIN sessions' :
                /\ Len(sessions[sid]) <= Len(sessions'[sid])
                /\ \A i \in 1..Len(sessions[sid]) : sessions'[sid][i] = sessions[sid][i]]_vars

\* two appends have landed in one session, and an append to another
\* session, which came after that session was deleted, has returned False
C20_AppendsAroundDelete ==
    /\ ret.value.kind = "add_message"
    /\ ~ret.value.ok
    /\ ret.sid = "s1"
    /\ "s1" \notin DOMAIN sessions
    /\ "s2" \in DOMAIN sessions
    /\ Len(sessions["s2"]) = 2

\* C21: a session's history is the messages appended to it, in append order:
\* the messages of a history stand in the order in which their appends took
\* the lock, a step changes a stored session's history at most by one
\* message put at its end, and get_conversation_history returns the stored
\* history in its order (its last `limit` messages when a limit is given)
C21_HistoryInAppendOrder ==
    /\ [](\A sid \in DOMAIN sessions : \A i, j \in 1..Len(sessions[sid]) :
            i < j => sessions[sid][i].content < sessions[sid][j].content)
    /\ [][/\ \A sid \in DOMAIN sessions \cap DOMAIN sessions' :
                \/ sessions'[sid] = sessions[sid]
                \/ /\ Len(sessions'[sid]) = Len(sessions[sid]) + 1
                   /\ SubSeq(sessions'[sid], 1, Len(sessions[sid])) = sessions[sid]
          /\ (ret' # ret /\ ret'.value.kind = "get_conversation_history") =>
                /\ sessions' = sessions
                /\ LET stored == IF ret'.sid \in DOMAIN sessions
                                 THEN sessions[ret'.sid] ELSE <<>>
                       returned == ret'.value.history
                       limit == ret'.value.limit
                   IN IF limit = 0
                      THEN returned = stored
                      ELSE /\ Len(returned) = IF limit < Len(stored) THEN limit
                                              ELSE Len(stored)
                           /\ \A i \in 1..Len(returned) :
                                 returned[i] = stored[Len(stored) - Len(returned) + i]]_vars

\* the history of a session with three appended messages was read with
\* limit 2
C21_ReadLastTwoOfThree ==
    /\ ret.value.kind = "get_conversation_history"
    /\ ret.value.limit = 2
    /\ Len(ret.value.history) = 2
    /\ ret.sid \in DOMAIN sessions
    /\ Len(sessions[ret.sid]) = 3

\* C22: a session id that was used once is not given to another session:
\* create_session with the id of a stored session raises ValueError and
\* leaves the store as it was, and after delete_session(id) has removed a
\* session, the next operation is not a create_session that returns a new
\* session under that id
C22_DeletedIdNotReused ==
    [][/\ (ret' # ret /\ ret'.at = "create_session" /\ ret'.sid \in DOMAIN sessions) =>
              (ret'.value.kind = "ValueError" /\ sessions' = sessions)
       /\ (ret.value.kind = "delete_session" /\ ret.value.ok) =>
              ~(/\ ret'.value.kind = "create_session"
                /\ ret'.value.session_id = ret.sid
                /\ sessions'[ret.sid] = <<>>)]_vars

\* the first messages of history `new` are the messages of history `old`
Extends(new, old) ==
    /\ Len(old) <= Len(new)
    /\ \A i \in 1..Len(old) : new[i].role = old[i].role /\ new[i].content = old[i].content

\* C23: a chat call on a stored session appends the user message with role
\* user when it starts the turn and the final text with role assistant when
\* it returns the answer, and nothing in between, so the history ends with
\* these two messages in this order; a chat call without a session id
\* changes no history
C23_TurnAppendsUserThenAssistant ==
    [][\A t \in TurnCallers :
          LET started == pc[t] = "idle" /\ pc'[t] = "lookup"
              answered == pc[t] = "finish" /\ pc'[t] = "idle"
              sid == IF started THEN frame'[t].sid ELSE frame[t].sid
          IN /\ started =>
                    IF sid = None THEN sessions' = sessions
                    ELSE /\ Len(sessions'[sid]) = Len(sessions[sid]) + 1
                         /\ Extends(sessions'[sid], sessions[sid])
                         /\ sessions'[sid][Len(sessions'[sid])].role = "user"
                         /\ sessions'[sid][Len(sessions'[sid])].content = frame'[t].msg
             /\ answered =>
                    IF sid = None THEN sessions' = sessions
                    ELSE LET n == Len(sessions'[sid])
                         IN /\ n = Len(sessions[sid]) + 1
                            /\ Extends(sessions'[sid], sessions[sid])
                            /\ sessions'[sid][n].role = "assistant"
                            /\ sessions'[sid][n].content = ret'.value.response
                            /\ sessions'[sid][n - 1].role = "user"
                            /\ sessions'[sid][n - 1].content = frame[t].msg
             /\ (~started /\ ~answered) => sessions' = sessions]_vars

\* a turn on session s1 with a tool call has returned its answer, and the
\* session's history is the user message followed by the answer
C23_TurnLoggedInSession ==
    /\ ret.at = "finish"
    /\ ret.sid = "s1"
    /\ Len(ret.value.tool_calls) >= 1
    /\ Len(sessions["s1"]) = 2
    /\ sessions["s1"][1].role = "user"
    /\ sessions["s1"][2].role = "assistant"

\* the results, by position, that succeeded with a chart that is not empty
Charted(results) == {i \in 1..Len(results) : results[i].success /\ results[i].plot # <<>>}

\* the chart of the last result that succeeded with one, or none
LastChart(results) ==
    IF Charted(results) = {} THEN <<>>
    ELSE results[CHOOSE i \in Charted(results) : \A j \in Charted(results) : j <= i].plot

\* C24: the plot_config of a returned answer is the chart of the last tool
\* call of the turn that succeeded with a non-empty chart, and none when no
\* call did: a later failure or a later success without a chart keeps it
C24_PlotOfLastCharted ==
    ret.at = "finish" => ret.value.plot_config = LastChart(ret.returned)

\* a turn returned the chart of its first tool call although a second tool
\* call, which failed, came after it
C24_ChartKeptOverLaterFailure ==
    /\ ret.at = "finish"
    /\ Len(ret.returned) = 2
    /\ ret.returned[1].success /\ ret.returned[1].plot # <<>>
    /\ ~ret.returned[2].success
    /\ ret.value.plot_config = ret.returned[1].plot

\* the workers that ran the tool calls of the call that returned last, in
\* the order of their dispatch
TurnWorkers == [i \in 1..Len(ret.returned) |-> workers[ret.w - Len(ret.returned) + i]]

\* C25: the tool_calls log of a returned answer has one entry for each tool
\* call the turn dispatched, in dispatch order, with the call's success flag
\* and, for a failed call only, its error; the answer's code is the code of
\* the last dispatched call, and None exactly when none was dispatched
C25_LogPerDispatchedCall ==
    ret.at = "finish" =>
        LET log == ret.value.tool_calls
            dispatched == {i \in 1..Len(ret.events) : ret.events[i] = "exec_call"}
        IN /\ Len(log) = Cardinality(dispatched)
           /\ Len(log) = Len(ret.returned)
           /\ \A i \in 1..Len(log) :
                 /\ TurnWorkers[i].owner = ret.thread
                 /\ log[i].success = TurnWorkers[i].rc.success
                 /\ log[i].success = ret.returned[i].success
                 /\ log[i].error = IF ret.returned[i].success THEN None
                                   ELSE ret.returned[i].error
           /\ (ret.value.code = None) = (dispatched = {})
           /\ dispatched # {} => ret.value.code = TurnWorkers[Len(log)].code

\* a turn with a failed and then a successful tool call, running different
\* code, has returned its answer
C25_TwoCallsLogged ==
    /\ ret.at = "finish"
    /\ Len(ret.value.tool_calls) = 2
    /\ ~ret.value.tool_calls[1].success
    /\ ret.value.tool_calls[2].success
    /\ ret.value.code = "ok_noplot"

\* the ids of the memories of a list
IdsOf(list) == {list[i].id : i \in 1..Len(list)}

\* C26: get_memories(category = c, limit = n), sorted by created_at, returns
\* stored memories of category c only, each once, n of them or all when
\* there are fewer, newest first, and every memory of category c that it
\* leaves out is no newer than any memory it returns
C26_NewestOfCategory ==
    (/\ ret.value.kind = "get_memories"
     /\ ret.value.sort_by = "created_at"
     /\ ret.value.category # NoCategory) =>
        LET r == ret.value.memories
            c == ret.value.category
            n == ret.value.limit
            ofC == {k \in 1..Len(memories) : memories[k].category = c}
        IN /\ Len(r) = IF n < Cardinality(ofC) THEN n ELSE Cardinality(ofC)
           /\ \A i \in 1..Len(r) : \E k \in ofC : memories[k] = r[i]
           /\ \A i, j \in 1..Len(r) : r[i].id = r[j].id => i = j
           /\ \A i, j \in 1..Len(r) : i < j => r[i].created_at >= r[j].created_at
           /\ \A k \in ofC : memories[k].id \notin IdsOf(r) =>
                 \A i \in 1..Len(r) : memories[k].created_at <= r[i].created_at

\* three memories of one category were created at three different times,
\* and get_memories with limit 2 returned the third and then the second
C26_TwoNewestOfThree ==
    /\ ret.value.kind = "get_memories"
    /\ ret.value.sort_by = "created_at"
    /\ ret.value.category = <<"a">>
    /\ ret.value.limit = 2
    /\ Len(memories) = 3
    /\ \A k \in 1..3 : memories[k].category = <<"a">> /\ memories[k].created_at = k
    /\ Len(ret.value.memories) = 2
    /\ ret.value.memories[1].id = memories[3].id
    /\ ret.value.memories[2].id = memories[2].id

\* the same text written in upper case (str.upper()): the upper case of the
\* sharp s is the two letters SS
UpperChar(c) == CASE c = "a" -> <<"A">> [] c = "s" -> <<"S">> [] c = "sz" -> <<"S", "S">>
                  [] OTHER -> <<c>>

RECURSIVE upper(_)
upper(text) == IF text = <<>> THEN <<>> ELSE UpperChar(Head(text)) \o upper(Tail(text))

\* the stored memories that search_memories(query) matches
MatchesOf(query) ==
    {memories[k].id : k \in {i \in 1..Len(memories) : IsMatch(lower(query), memories[i])}}

\* the memory with its content and its category written in upper case
InUpperCase(m) == [m EXCEPT !.content = upper(@), !.category = upper(@)]

\* C27: search_memories returns matches only (all of them when the limit
\* leaves room), and matching does not depend on letter case: the query
\* written in upper case or in lower case matches the same memories, and a
\* memory matches a query exactly when the same memory written in upper
\* case does
C27_MatchIgnoresCase ==
    ret.value.kind = "search_memories" =>
        LET q == ret.value.query
            r == ret.value.memories
        IN /\ IdsOf(r) \subseteq MatchesOf(q)
           /\ Len(r) < ret.value.limit => IdsOf(r) = MatchesOf(q)
           /\ MatchesOf(upper(q)) = MatchesOf(q)
           /\ MatchesOf(lower(q)) = MatchesOf(q)
           /\ \A k \in 1..Len(memories) :
                 IsMatch(lower(q), InUpperCase(memories[k])) = IsMatch(lower(q), memories[k])

\* the stored memory with this id
Stored(id) == memories[CHOOSE k \in 1..Len(memories) : memories[k].id = id]

\* memory a does not rank below memory b by (access_count, created_at)
RanksNoLower(a, b) ==
    \/ a.access_count > b.access_count
    \/ (a.access_count = b.access_count /\ a.created_at >= b.created_at)

\* C28: search_memories returns matches, each once, `limit` of them or all
\* when there are fewer, in descending (access_count, created_at) as held
\* before the call, and no match it leaves out ranks above one it returns;
\* each returned memory has its access_count raised by one and its
\* last_accessed set to the time of the call, and every other memory stays
\* as it was
C28_SearchRanksAndCounts ==
    [][(nops' = nops + 1 /\ pc' = pc /\ ret'.value.kind = "search_memories") =>
          LET r == ret'.value.memories
              ids == IdsOf(r)
              limit == ret'.value.limit
              matches == MatchesOf(ret'.value.query)
          IN /\ ids \subseteq matches
             /\ \A i, j \in 1..Len(r) : r[i].id = r[j].id => i = j
             /\ Len(r) = IF limit < Cardinality(matches) THEN limit ELSE Cardinality(matches)
             /\ \A i, j \in 1..Len(r) : i < j => RanksNoLower(Stored(r[i].id), Stored(r[j].id))
             /\ \A id \in matches \ ids : \A i \in 1..Len(r) :
                   RanksNoLower(Stored(r[i].id), Stored(id))
             /\ Len(memories') = Len(memories)
             /\ \A k \in 1..Len(memories) :
                   memories'[k] = IF memories[k].id \in ids
                                  THEN [memories[k] EXCEPT
                                           !.access_count = memories[k].access_count + 1,
                                           !.last_accessed = now]
                                  ELSE memories[k]
             /\ \A i \in 1..Len(r) : \E k \in 1..Len(memories') : memories'[k] = r[i]]_vars

\* a search with limit 1 found two matches and returned the older one, which
\* had been read before; the newer match was cut off and keeps its
\* statistics
C28_MoreAccessedBeforeNewer ==
    /\ ret.value.kind = "search_memories"
    /\ ret.value.limit = 1
    /\ Len(ret.value.memories) = 1
    /\ Len(memories) = 2
    /\ MatchesOf(ret.value.query) = {memories[1].id, memories[2].id}
    /\ memories[1].created_at < memories[2].created_at
    /\ ret.value.memories[1].id = memories[1].id
    /\ memories[1].access_count = 2
    /\ memories[2].access_count = 0
    /\ memories[2].last_accessed = Never

\* C29: a stored memory changes only through reads: in every step its id,
\* content, category and created_at stay and its access_count does not
\* decrease; when its access_count or last_accessed changes, the step is a
\* get_memory or a search_memories that returns it and the count has grown
\* by one; get_memories and get_summary change no memory, and add_memory
\* and delete_memory change no memory that is stored before and after
C29_OnlyReadsChangeStatistics ==
    [][/\ \A k \in 1..Len(memories) : \A j \in 1..Len(memories') :
             memories'[j].id = memories[k].id =>
                 LET a == memories[k]
                     b == memories'[j]
                 IN /\ b.content = a.content
                    /\ b.category = a.category
                    /\ b.created_at = a.created_at
                    /\ b.access_count >= a.access_count
                    /\ (b.access_count # a.access_count \/ b.last_accessed # a.last_accessed) =>
                          /\ pc' = pc
                          /\ nops' = nops + 1
                          /\ ret'.value.kind \in {"get_memory", "search_memories"}
                          /\ a.id \in IdsOf(ret'.value.memories)
                          /\ b.access_count = a.access_count + 1
                          /\ b.last_accessed = now
       /\ (/\ pc' = pc
           /\ nops' = nops + 1
           /\ ret'.value.kind \in {"get_memories", "get_summary"}) => memories' = memories]_vars

\* a memory that was read by get_memory and by search_memories has just been
\* listed by get_memories with its two accesses
C29_ListedAfterTwoReads ==
    /\ ret.value.kind = "get_memories"
    /\ \E i \in 1..Len(ret.value.memories) :
          /\ ret.value.memories[i].access_count = 2
          /\ ret.value.memories[i].last_accessed # Never
          /\ \E k \in 1..Len(memories) : memories[k] = ret.value.memories[i]

\* C30: a successful add_message or update_session sets the session's
\* last_activity to the time of the call; the last_activity of a stored
\* session never decreases and is never earlier than its created_at, which
\* never changes; get_session, get_conversation_history and list_sessions
\* leave every session's times as they are
C30_LastActivityFollowsMutations ==
    /\ [](\A sid \in DOMAIN session_info :
            session_info[sid].created_at <= session_info[sid].last_activity)
    /\ [][/\ \A sid \in DOMAIN session_info \cap DOMAIN session_info' :
                /\ session_info'[sid].created_at = session_info[sid].created_at
                /\ session_info'[sid].last_activity >= session_info[sid].last_activity
          /\ \A t \in DirectCallers :
                (pc[t] = "add_message" /\ pc'[t] = "idle" /\ ret'.value.ok) =>
                    session_info'[ret'.sid].last_activity = now
          /\ (nops' = nops + 1 /\ pc' = pc /\ ret'.at = "update_session" /\ ret'.value.ok) =>
                session_info'[ret'.sid].last_activity = now
          /\ (nops' = nops + 1 /\ pc' = pc /\ ret'.at \in {"get_session", "list_sessions",
                                                            "get_conversation_history"}) =>
                session_info' = session_info]_vars

\* a session created at one time got a message at a later time and was
\* then read at a still later time: its last_activity is the time of the
\* message
C30_ReadAfterLaterAppend ==
    /\ ret.at = "get_conversation_history"
    /\ ret.sid = "s1"
    /\ "s1" \in DOMAIN session_info
    /\ Len(sessions["s1"]) = 1
    /\ session_info["s1"].created_at = 1
    /\ session_info["s1"].last_activity = 2
    /\ now = 3

\* the last call to return was a chat call that ran to its end
Finishing(t) == pc[t] = "finish" /\ pc'[t] = "idle"

\* C31: whatever the preference extraction meets (its model call raises, the
\* response has no text or a text with nothing to save, a memory write
\* fails), chat does not raise and returns the AgentResponse it built before
\* the extraction, the one it returns when the extraction succeeds
C31_ExtractorNeverFailsTurn ==
    [][\A t \in Callers :
          Finishing(t) =>
             /\ ret'.value.kind = "response"
             /\ ret'.value.response =
                   (IF frame[t].final_response # "" THEN frame[t].final_response
                    ELSE "Analysis complete.")
             /\ ret'.value.plot_config = frame[t].final_plot_config
             /\ ret'.value.code = frame[t].executed_code
             /\ ret'.value.tool_calls = frame[t].tool_calls
             /\ ret'.value.errors = frame[t].errors
             /\ ret'.value.warnings = frame[t].warnings]_vars

\* a turn whose extractor's model call raised has returned its response
C31_ReturnedDespiteFailure ==
    /\ ret.at = "finish"
    /\ ret.extraction.kind = "Exception"
    /\ ret.value.kind = "response"
    /\ ret.value.response = "text"

\* the lines of a text that are not blank after trimming, are not the
\* sentinel and have more than five characters, trimmed
Qualifying(text) ==
    LET lines == split(text)
        trimmed == [i \in 1..Len(lines) |-> strip(lines[i])]
    IN SelectSeq(trimmed, LAMBDA l : l # <<>> /\ l # NONE /\ Len(l) > 5)

\* the memories a step has added at the end of the bank
Added == SubSeq(memories', Len(memories) + 1, Len(memories'))

\* C32: for the text the auxiliary model returned, the extractor adds one
\* user_preference memory per line that is not blank after trimming, is not
\* the sentinel and is longer than five characters, and nothing else: the
\* only other memory a turn adds is its one insight, which goes first
C32_OneMemoryPerQualifyingLine ==
    [][\A t \in Callers :
          (Finishing(t) /\ ret'.extraction.kind = "text" /\ ret'.extraction.failing = 0) =>
             LET wanted == Qualifying(ret'.extraction.text)
                 prefs == SelectSeq(Added, LAMBDA m : m.category = "user_preference")
                 others == SelectSeq(Added, LAMBDA m : m.category # "user_preference")
             IN /\ Len(memories') >= Len(memories)
                /\ \A i \in 1..Len(memories) : memories'[i] = memories[i]
                /\ Len(prefs) = Len(wanted)
                /\ \A i \in 1..Len(wanted) : prefs[i].content = wanted[i]
                /\ \A i, j \in 1..Len(memories') : i # j => memories'[i].id # memories'[j].id
                /\ Len(others) <= 1
                /\ \A i \in 1..Len(others) :
                      others[i].category = "insight" /\ Added[1] = others[i]]_vars

\* a text of two lines, one of five characters and one of six, has left one
\* memory behind: the line of six
C32_SixKeptFiveDropped ==
    /\ ret.at = "finish"
    /\ ret.extraction.kind = "text"
    /\ ret.extraction.failing = 0
    /\ ret.extraction.text = Join(<<<<"L", "i", "k", "e", "s">>, <<"L", "i", "k", "e", "s", ":">>>>)
    /\ Len(memories) = 1
    /\ memories[1].category = "user_preference"
    /\ memories[1].content = <<"L", "i", "k", "e", "s", ":">>

\* C33: every iteration of the turn loop makes progress: once the loop
\* looks at a model turn, it leaves that test, by dispatching the tool call
\* or by leaving the loop, whatever the shape of the turn
C33_LoopIterationProgresses ==
    \A t \in TurnCallers : (pc[t] = "loop") ~> (pc[t] # "loop")

\* the logged tool calls that succeeded without binding `result` or without
\* binding the chart object
Lacking(tool_calls) ==
    SelectSeq(tool_calls, LAMBDA c : c.success /\ (~c.has_result \/ ~c.has_plot_config))

\* C34: a turn that ran to its end reports one warning for each successful
\* tool call whose code left `result` or the chart object unbound, no
\* warning for any other call, and no error
C34_WarningPerUnboundOutput ==
    (ChatReturned /\ ret.at = "finish") =>
        /\ Len(ret.value.warnings) = Len(Lacking(ret.value.tool_calls))
        /\ ret.value.errors = <<>>

\* a step in which a store operation other than add_message ran, whole
StoreCall(kind) == nops' # nops /\ pc' = pc /\ ret'.value.kind = kind

\* C35: for an id that has no session in the store, update, add_message and
\* delete return false, get returns nothing and the history is empty, and
\* the call leaves every session, its history, its times and its context as
\* they were: no session appears under the id
C35_UnknownIdChangesNothing ==
    [][/\ \A kind \in {"update_session", "delete_session", "get_session",
                       "get_conversation_history"} :
             (StoreCall(kind) /\ ret'.sid \notin DOMAIN sessions) =>
                /\ sessions' = sessions
                /\ session_info' = session_info
                /\ kind \in {"update_session", "delete_session"} => ~ret'.value.ok
                /\ kind = "get_session" => ~ret'.value.found
                /\ kind = "get_conversation_history" => ret'.value.history = <<>>
       /\ \A t \in DirectCallers :
             (pc[t] = "add_message" /\ pc'[t] = "idle" /\ frame[t].sid \notin DOMAIN sessions) =>
                /\ sessions' = sessions
                /\ session_info' = session_info
                /\ ~ret'.value.ok]_vars

\* an update under an id that is not stored has returned false beside a
\* session that holds a message
C35_UpdateOfUnknownBesideStored ==
    /\ ret.value.kind = "update_session"
    /\ ~ret.value.ok
    /\ ret.sid = "s2"
    /\ DOMAIN sessions = {"s1"}
    /\ Len(sessions["s1"]) = 1

\* C36: a cleanup removes the sessions whose last activity is older than
\* the time the call read minus max_age, and only those; it returns their
\* number and leaves every other session, its history and its times as they
\* were, so a session touched within max_age stays whenever it was created
C36_CleanupRemovesIdleSessions ==
    [][\A t \in DirectCallers :
          (pc[t] = "cleanup" /\ pc'[t] = "idle") =>
             LET idle == {sid \in DOMAIN sessions :
                             session_info[sid].last_activity < frame[t].cutoff_time}
             IN /\ DOMAIN sessions' = DOMAIN sessions \ idle
                /\ DOMAIN session_info' = DOMAIN sessions'
                /\ ret'.value.removed_count = Cardinality(idle)
                /\ \A sid \in DOMAIN sessions' :
                      /\ sessions'[sid] = sessions[sid]
                      /\ session_info'[sid] = session_info[sid]]_vars

\* a cleanup has removed one session and kept another that was created
\* before the cutoff time and touched after it
C36_OldButActiveKept ==
    /\ ret.value.kind = "cleanup_old_sessions"
    /\ ret.value.removed_count = 1
    /\ DOMAIN sessions = {"s2"}
    /\ session_info["s2"].created_at < ret.cutoff_time
    /\ session_info["s2"].last_activity >= ret.cutoff_time
    /\ Len(sessions["s2"]) = 1

\* C37: an execute call whose code raises nothing and whose worker was
\* joined before the deadline returns success = true, whatever other
\* executions ran beside it
C37_CleanRunSucceeds ==
    (ExecReturned /\ ret.w # 0 /\ workers[ret.w].fate = "joined"
        /\ Outcome(workers[ret.w].code) = "ok") =>
       ret.value.result.success

\* C38: once every worker that execute started has finished, sys.stdout is
\* the stream it was before the first execute call
C38_StdoutRestoredAtRest ==
    (\A w \in WorkerIds : workers[w].wpc = "done") => sys_stdout = RealStdout

\* C39: after a session-aware chat call has returned on a failure path
\* (priming rejected, retries used up, unexpected error), the session's
\* history does not hold the call's user message, and the memory bank is empty
C39_FailedTurnLeavesNoTrace ==
    (ChatReturned /\ ret.at \in {"prime", "send"} /\ ret.value.kind = "response"
        /\ ret.sid \in DOMAIN sessions) =>
        /\ \A i \in 1..Len(sessions[ret.sid]) :
              sessions[ret.sid][i].role = "user" => sessions[ret.sid][i].content # ret.msg
        /\ memories = <<>>

\* C40: the orchestrator keeps a model session only under session ids that
\* the session store holds
C40_ModelSessionsOnlyForStoredIds ==
    \A sid \in DOMAIN session_chats :
        session_chats[sid] # NoChat => sid \in DOMAIN sessions
====
